---- MODULE Spec2Model ----
(***************************************************************************)
(* Model of websocket-mqtt: the createMqtt client (src/src/base.ts over    *)
(* createConnection, src/src/connection.ts lines 1-258) and the legacy     *)
(* createMqttClient (src/src/client.ts).  One client instance is modelled  *)
(* per behaviour; impl says which constructor built it.                    *)
(***************************************************************************)
EXTENDS Integers, Sequences, FiniteSets, TLC

\* ---------------------------------------------------------------- bounds
MaxOps == 1
MaxSockets == 1
MaxTimers == 2
MaxFrames == 2
MaxOutstanding == 2
MaxSpread == 2
MaxTopicLen == 2

\* ------------------------------------------------------ program constants
CONNACK == 2
PUBLISH == 3
PUBACK == 4
SUBSCRIBE == 8
SUBACK == 9
PINGREQ == 12
PINGRESP == 13
DISCONNECT == 14
CONNECT == 1
MaxMessageId == 65535
SubackFailure == 128
DEFAULT_KEEPALIVE_SECONDS == 60
\* what an out-of-range read of a Uint8Array yields
Undefined == 0 - 1

VARIABLES
  impl,              \* which constructor built the client
  keepalive,         \* options.keepalive after defaulting
  sockets,           \* readyState of every WebSocket created so far
  ws,                \* index of the current WebSocket, 0 = undefined/null
  connected,
  pingInterval,      \* 0 = undefined/null, 1 = handle of the newest interval
  activeTimers,      \* number of setInterval timers not yet cleared
  lastMessageId,     \* connection.ts
  pending,           \* base.ts: [sub, pub], message id -> promise
  messageIdCounter,  \* client.ts
  pendingSubscribes, \* client.ts
  pendingPublishes,  \* client.ts
  inbox,             \* 1 while a message handler has decoded packets left to dispatch
  promises,          \* history: every promise returned by publish/subscribe
  allocated,         \* history: every value returned by nextMessageId
  priorAllocs,       \* allocations made before the observed window
  last,              \* history: the operation of the last step
  sentNow,           \* packets handed to ws.send during the last step
  emittedNow,        \* application events emitted during the last step
  wire,              \* bytes the transport has still to deliver
  receiveBuffer,     \* bytes received that do not yet form a whole packet
  queue,             \* packets decoded by the running handler, not yet dispatched
  dispatched,        \* history: packets decoded from bytes and dispatched, in order
  frames,            \* history: the frames the peer wrote on the wire
  lastDecode,        \* history: the latest decodeAll call and its outcome
  observer,          \* history: what the application has seen, when it is watched
  codec              \* a value handed to the packet writer, its bytes, what is read back

vars == <<impl, keepalive, sockets, ws, connected, pingInterval, activeTimers,
          lastMessageId, pending, messageIdCounter, pendingSubscribes,
          pendingPublishes, inbox, promises, allocated, priorAllocs,
          last, sentNow, emittedNow,
          wire, receiveBuffer, queue, dispatched, frames, lastDecode, observer,
          codec>>

\* ------------------------------------------------------------- data
EmptyMap == [k \in {} |-> 0]
MapSet(m, k, v) == [x \in (DOMAIN m) \cup {k} |-> IF x = k THEN v ELSE m[x]]
MapDelete(m, k) == [x \in (DOMAIN m) \ {k} |-> m[x]]
MapValues(m) == {m[k] : k \in DOMAIN m}

NoPacket == [type |-> 0, messageId |-> 0, hasId |-> FALSE, qos |-> 0,
             returnCode |-> 0, granted |-> <<>>,
             sessionPresent |-> FALSE, topic |-> <<>>, payload |-> <<>>,
             retain |-> FALSE, dup |-> FALSE]
ConnackPacket(rc) == [NoPacket EXCEPT !.type = CONNACK, !.returnCode = rc]
SubackPacket(id, g) == [NoPacket EXCEPT !.type = SUBACK, !.messageId = id,
                                        !.hasId = TRUE, !.granted = g]
PubackPacket(id) == [NoPacket EXCEPT !.type = PUBACK, !.messageId = id,
                                     !.hasId = TRUE]
PingrespPacket == [NoPacket EXCEPT !.type = PINGRESP]
PingreqPacket == [NoPacket EXCEPT !.type = PINGREQ]
DisconnectPacket == [NoPacket EXCEPT !.type = DISCONNECT]
ConnectPacket == [NoPacket EXCEPT !.type = CONNECT]
SubscribePacket(id) == [NoPacket EXCEPT !.type = SUBSCRIBE, !.messageId = id,
                                        !.hasId = TRUE]

\* decodePublish: the message id is read iff the QoS bits are nonzero
InboundPublish(qos, id) == [NoPacket EXCEPT !.type = PUBLISH, !.qos = qos,
                                            !.hasId = (qos > 0),
                                            !.messageId = IF qos > 0 THEN id ELSE 0]

encodePublishAlwaysId(qos, hasMessageId, messageId) ==
  [NoPacket EXCEPT !.type = PUBLISH, !.qos = qos, !.hasId = TRUE,
                   !.messageId = messageId]
\* encodePublish: the message id is written iff qos > 0 and it is defined
encodePublish(qos, hasMessageId, messageId) ==
  [NoPacket EXCEPT !.type = PUBLISH, !.qos = qos,
                   !.hasId = (qos > 0 /\ hasMessageId),
                   !.messageId = IF qos > 0 /\ hasMessageId THEN messageId ELSE 0]

\* message ids carried by inbound acknowledgments: every id issued so far and
\* one id that is never issued
AckIds == {allocated[i] : i \in DOMAIN allocated} \cup {0}
GrantedLists == {<<1>>, <<0, SubackFailure>>}
ReturnCodes == {0, 5}
PublishQos == {0, 1}
InboundPackets ==
  {ConnackPacket(rc) : rc \in ReturnCodes}
    \cup {SubackPacket(id, g) : id \in AckIds, g \in GrantedLists}
    \cup {PubackPacket(id) : id \in AckIds}
    \cup {InboundPublish(q, 5) : q \in PublishQos}
    \cup {PingrespPacket}

NewPromise(kind, qos, id, state) ==
  [kind |-> kind, qos |-> qos, id |-> id, state |-> state,
   granted |-> <<>>, error |-> "", calls |-> IF state = "pending" THEN 0 ELSE 1,
   closedOver |-> FALSE]

\* request.resolve(value): the first settlement wins, every call is counted
resolve(ps, i, g) ==
  [ps EXCEPT ![i] = [@ EXCEPT !.state = IF @ = "pending" THEN "resolved" ELSE @,
                              !.granted = IF ps[i].state = "pending" THEN g ELSE @,
                              !.calls = @ + 1]]
reject(ps, i, msg) ==
  [ps EXCEPT ![i] = [@ EXCEPT !.state = IF @ = "pending" THEN "rejected" ELSE @,
                              !.error = IF ps[i].state = "pending" THEN msg ELSE @,
                              !.calls = @ + 1]]
RejectAll(ps, idxs, msg) ==
  [i \in DOMAIN ps |-> IF i \in idxs THEN reject(ps, i, msg)[i] ELSE ps[i]]
\* history only: remember which promises were outstanding when close ran
MarkClosed(ps) ==
  [i \in DOMAIN ps |-> IF ps[i].state = "pending"
                       THEN [ps[i] EXCEPT !.closedOver = TRUE] ELSE ps[i]]

\* no decodeAll call has been made
NoDecode ==
  [input |-> <<>>, packets |-> <<>>, consumed |-> 0, remaining |-> <<>>,
   threw |-> FALSE, cut |-> "none"]

Event(name, msg) == [event |-> name, message |-> msg]

getConnackErrorMessageGeneric(rc) == "Connection refused: " \o ToString(rc)
getConnackErrorMessage(rc) ==
  CASE rc = 1 -> "Connection refused: unacceptable protocol version"
    [] rc = 2 -> "Connection refused: identifier rejected"
    [] rc = 3 -> "Connection refused: server unavailable"
    [] rc = 4 -> "Connection refused: bad username or password"
    [] rc = 5 -> "Connection refused: not authorized"
    [] rc = Undefined -> "Connection refused: undefined"
    [] OTHER -> "Connection refused: " \o ToString(rc)

\* before: readyState of the event's socket when the event fired, "" otherwise
Op(name, p) == [op |-> name, packet |-> p, before |-> ""]
SocketOp(name, state) == [op |-> name, packet |-> NoPacket, before |-> state]

\* ------------------------------------------------- the application's view
\* on: what is watched in this behaviour ("wire", "api"); log: every packet
\* handed to ws.send, in order; calls: the publish/subscribe calls made, in
\* order; api: the promises returned by connect() and endAsync()
\* with "disconnect" in on, log holds instead the transport of every DISCONNECT
\* handed to ws.send
NotObserving == [on |-> {}, log |-> <<>>, calls |-> <<>>, api |-> <<>>]
IsDisconnect(p) == p.type = DISCONNECT
Disconnects(sent) == SelectSeq(sent, IsDisconnect)
Observing(what) == [NotObserving EXCEPT !.on = what]
TransportOpen == ws # 0 /\ sockets[ws] = "OPEN"
IsRequest(l) ==
  l.op \in {"publish", "subscribe", "publishAsync", "subscribeAsync"}
\* by: the event whose listener settled the promise ("" = none, "return" =
\* settled by the call itself); seen: isConnected() when it was settled
ApiPromise(kind, state, by, seen) ==
  [kind |-> kind, state |-> state, by |-> by, connected |-> seen]
\* the listeners a promise has registered: connect() resolves on 'connect' and
\* rejects on 'error'; endAsync() resolves on 'close'. A settled promise stays.
settleBy(p, e, seen) ==
  IF p.state # "pending" THEN p
  ELSE IF p.kind = "connect" /\ e.event = "connect"
       THEN ApiPromise(p.kind, "resolved", e.event, seen)
  ELSE IF p.kind = "connect" /\ e.event = "error"
       THEN ApiPromise(p.kind, "rejected", e.event, seen)
  ELSE IF p.kind = "endAsync" /\ e.event = "close"
       THEN ApiPromise(p.kind, "resolved", e.event, seen)
  ELSE p
RECURSIVE settle(_, _, _)
settle(p, events, seen) ==
  IF events = <<>> THEN p
  ELSE settle(settleBy(p, Head(events), seen), Tail(events), seen)
\* the promise a call returns: connect() leaves it to its listeners, endAsync()
\* resolves at once when there is no transport or it is already CLOSED
returned(l, socks) ==
  IF l.op = "open" THEN <<ApiPromise("connect", "pending", "", FALSE)>>
  ELSE IF l.op = "endAsync"
       THEN IF ws = 0 \/ socks[ws] = "CLOSED"
            THEN <<ApiPromise("endAsync", "resolved", "return", connected')>>
            ELSE <<ApiPromise("endAsync", "pending", "", FALSE)>>
  ELSE <<>>
\* what the step adds to the application's view; no client step leaves
\* anything with the codec under test
Observed ==
  /\ UNCHANGED codec
  /\ observer' =
       [on |-> observer.on,
        log |-> IF "wire" \in observer.on
                THEN observer.log \o sentNow'
                ELSE IF "disconnect" \in observer.on
                THEN observer.log \o [i \in 1..Len(Disconnects(sentNow')) |-> ws]
                ELSE observer.log,
        calls |-> IF "wire" \in observer.on /\ IsRequest(last')
                  THEN Append(observer.calls,
                              [packet |-> last'.packet, open |-> TransportOpen])
                  ELSE observer.calls,
        api |-> IF "api" \in observer.on
                THEN [i \in DOMAIN observer.api |->
                        settle(observer.api[i], emittedNow', connected')]
                       \o returned(last', sockets')
                ELSE observer.api]

\* WebSocket.close(): CONNECTING/OPEN become CLOSING, otherwise no effect
wsClose(socks, s) ==
  IF s # 0 /\ socks[s] \in {"CONNECTING", "OPEN"}
  THEN [socks EXCEPT ![s] = "CLOSING"] ELSE socks

\* ------------------------------------------ utils/buffer.ts, decode.ts
ReplacementChar == 65533
\* the operand conversion of <<, | and &: undefined becomes 0
ToInt32(v) == IF v = Undefined THEN 0 ELSE v

\* buffer[position], position counted from 0
ByteAt(buffer, position) ==
  IF position >= 0 /\ position < Len(buffer) THEN buffer[position + 1] ELSE Undefined
\* Uint8Array.subarray(begin, end): both ends are clamped to the length
subarray(buffer, begin, end) ==
  LET b == IF begin > Len(buffer) THEN Len(buffer) ELSE begin
      e == IF end > Len(buffer) THEN Len(buffer) ELSE end
  IN IF e > b THEN SubSeq(buffer, b + 1, e) ELSE <<>>
\* a string is the sequence of its code points; a value in 55296..57343 is a
\* surrogate code unit that has no partner
ByteOrderMark == 65279
IsLoneSurrogate(cp) == cp >= 55296 /\ cp <= 57343
\* TextEncoder.encode: UTF-8, a lone surrogate is written as U+FFFD
encodeCodePoint(cp) ==
  IF cp < 128 THEN <<cp>>
  ELSE IF cp < 2048 THEN <<192 + (cp \div 64), 128 + (cp % 64)>>
  ELSE IF IsLoneSurrogate(cp) THEN <<239, 191, 189>>
  ELSE IF cp < 65536
       THEN <<224 + (cp \div 4096), 128 + ((cp \div 64) % 64), 128 + (cp % 64)>>
  ELSE <<240 + (cp \div 262144), 128 + ((cp \div 4096) % 64),
         128 + ((cp \div 64) % 64), 128 + (cp % 64)>>
RECURSIVE textEncode(_)
textEncode(str) ==
  IF str = <<>> THEN <<>> ELSE encodeCodePoint(Head(str)) \o textEncode(Tail(str))
\* the UTF-8 decoder at byte i (counted from 1): a lead byte announces 1 to 3
\* continuation bytes; a byte that cannot start or continue a sequence yields
\* U+FFFD, and decoding goes on at the first byte that did not fit
utf8Unit(data, i) ==
  LET b == data[i]
      needed == IF b < 128 THEN 0
                ELSE IF b >= 194 /\ b <= 223 THEN 1
                ELSE IF b >= 224 /\ b <= 239 THEN 2
                ELSE IF b >= 240 /\ b <= 244 THEN 3
                ELSE 0 - 1
      lower(k) == IF k = 1 /\ b = 224 THEN 160
                  ELSE IF k = 1 /\ b = 240 THEN 144 ELSE 128
      upper(k) == IF k = 1 /\ b = 237 THEN 159
                  ELSE IF k = 1 /\ b = 244 THEN 143 ELSE 191
      fits(k) == /\ i + k <= Len(data)
                 /\ data[i + k] >= lower(k) /\ data[i + k] <= upper(k)
      good == IF needed < 1 \/ ~fits(1) THEN 0
              ELSE IF needed < 2 \/ ~fits(2) THEN 1
              ELSE IF needed < 3 \/ ~fits(3) THEN 2 ELSE 3
      c(k) == data[i + k] - 128
  IN IF needed = 0 THEN [cp |-> b, size |-> 1]
     ELSE IF needed < 0 \/ good < needed
          THEN [cp |-> ReplacementChar, size |-> good + 1]
     ELSE [cp |-> CASE needed = 1 -> (b - 192) * 64 + c(1)
                    [] needed = 2 -> (b - 224) * 4096 + c(1) * 64 + c(2)
                    [] OTHER -> (b - 240) * 262144 + c(1) * 4096 + c(2) * 64 + c(3),
           size |-> needed + 1]
\* units[i]: what is decoded at byte i. Each position is computed once and
\* then handed on as a value.
RECURSIVE utf8Walk(_, _)
utf8Walk(units, i) ==
  IF i > Len(units) THEN <<>>
  ELSE <<units[i].cp>>
         \o (CHOOSE rest \in {utf8Walk(units, j) : j \in {i + units[i].size}} : TRUE)
utf8Decode(data) ==
  CHOOSE str \in {utf8Walk(units, 1) :
                    units \in {[i \in 1..Len(data) |-> utf8Unit(data, i)]}} : TRUE
\* new TextDecoder().decode(data): ignoreBOM is false, a leading U+FEFF is dropped
textDecode(data) ==
  CHOOSE out \in {IF str # <<>> /\ Head(str) = ByteOrderMark THEN Tail(str) ELSE str :
                   str \in {utf8Decode(bytes) : bytes \in {data}}} : TRUE

\* createPacketWriter: every write returns the bytes written so far
writeByte(buffer, value) == Append(buffer, value % 256)
writeUint16(buffer, value) ==
  buffer \o <<(value \div 256) % 256, value % 256>>
writeBytes(buffer, data) == buffer \o data
writeString(buffer, value) ==
  LET bytes == textEncode(value)
  IN writeBytes(writeUint16(buffer, Len(bytes)), bytes)
RECURSIVE writeVariableInt(_, _)
writeVariableInt(buffer, value) ==
  LET byte == value % 128
      rest == value \div 128
  IN IF rest > 0
     THEN writeVariableInt(writeByte(buffer, byte + 128), rest)
     ELSE writeByte(buffer, byte)

\* createPacketReader: every read returns its value and the new position
readByte(buffer, position) ==
  [value |-> ByteAt(buffer, position), position |-> position + 1]
readUint16(buffer, position) ==
  [value |-> ToInt32(ByteAt(buffer, position)) * 256
               + ToInt32(ByteAt(buffer, position + 1)),
   position |-> position + 2]
readBytes(buffer, position, length) ==
  [value |-> subarray(buffer, position, position + length),
   position |-> position + length]
readString(buffer, position) ==
  LET length == readUint16(buffer, position).value
  IN [value |-> textDecode(subarray(buffer, position + 2, position + 2 + length)),
      position |-> position + 2 + length]
RECURSIVE readVariableIntFrom(_, _, _, _)
readVariableIntFrom(buffer, position, value, multiplier) ==
  LET byte == ToInt32(ByteAt(buffer, position))
      v == value + (byte % 128) * multiplier
  IN IF byte >= 128
     THEN readVariableIntFrom(buffer, position + 1, v, multiplier * 128)
     ELSE [value |-> v, position |-> position + 1]
readVariableIntOneByte(buffer, position) ==
  [value |-> ToInt32(ByteAt(buffer, position)) % 128, position |-> position + 1]
readVariableInt(buffer, position) == readVariableIntFrom(buffer, position, 0, 1)
readRest(buffer, position) ==
  [value |-> subarray(buffer, position, Len(buffer)), position |-> Len(buffer)]

decodeConnack(payload) ==
  LET flags == readByte(payload, 0)
      rc == readByte(payload, flags.position)
  IN [NoPacket EXCEPT !.type = CONNACK,
                      !.sessionPresent = (ToInt32(flags.value) % 2 = 1),
                      !.returnCode = rc.value]
decodeSuback(payload) ==
  LET id == readUint16(payload, 0)
  IN [NoPacket EXCEPT !.type = SUBACK, !.messageId = id.value, !.hasId = TRUE,
                      !.granted = subarray(payload, id.position, Len(payload))]
decodePublish(payload, flags) ==
  LET topic == readString(payload, 0)
      qos == (flags \div 2) % 4
      id == readUint16(payload, topic.position)
      rest == readRest(payload, IF qos > 0 THEN id.position ELSE topic.position)
  IN [NoPacket EXCEPT !.type = PUBLISH, !.topic = topic.value, !.qos = qos,
                      !.hasId = (qos > 0),
                      !.messageId = IF qos > 0 THEN id.value ELSE 0,
                      !.payload = rest.value,
                      !.retain = (flags % 2 # 0),
                      !.dup = ((flags \div 8) % 2 # 0)]
decodePuback(payload) ==
  [NoPacket EXCEPT !.type = PUBACK, !.hasId = TRUE,
                   !.messageId = readUint16(payload, 0).value]

\* decode: kind is "null" (incomplete), "throw" or "packet"
DecodeNull == [kind |-> "null", packet |-> NoPacket, bytesConsumed |-> 0]
DecodeThrow == [kind |-> "throw", packet |-> NoPacket, bytesConsumed |-> 0]
\* decode without the comparison of the buffer length with the declared length
decodeNoLengthCheck(bytes) ==
  IF Len(bytes) < 2 THEN DecodeNull
  ELSE LET firstByte == readByte(bytes, 0).value
           packetType == firstByte \div 16
           rl == readVariableInt(bytes, 1)
       IN IF packetType \notin {CONNACK, SUBACK, PUBLISH, PUBACK, PINGRESP}
          THEN DecodeThrow
          ELSE [kind |-> "packet", packet |-> PingrespPacket,
                bytesConsumed |-> Len(bytes)]
\* decode that takes a packet of an unknown type for an incomplete one
decodeSkipUnknown(bytes) ==
  IF Len(bytes) < 2 THEN DecodeNull
  ELSE LET firstByte == readByte(bytes, 0).value
           packetType == firstByte \div 16
           flags == firstByte % 16
           rl == readVariableInt(bytes, 1)
           headerLength == rl.position
           totalLength == headerLength + rl.value
           payload == readBytes(bytes, headerLength, rl.value).value
       IN IF Len(bytes) < totalLength THEN DecodeNull
          ELSE IF packetType \notin {CONNACK, SUBACK, PUBLISH, PUBACK, PINGRESP}
          THEN DecodeNull
          ELSE [kind |-> "packet",
                packet |-> CASE packetType = CONNACK -> decodeConnack(payload)
                             [] packetType = SUBACK -> decodeSuback(payload)
                             [] packetType = PUBLISH -> decodePublish(payload, flags)
                             [] packetType = PUBACK -> decodePuback(payload)
                             [] packetType = PINGRESP -> PingrespPacket,
                bytesConsumed |-> totalLength]
decode(bytes) ==
  IF Len(bytes) < 2 THEN DecodeNull
  ELSE LET firstByte == readByte(bytes, 0).value
           packetType == firstByte \div 16
           flags == firstByte % 16
           rl == readVariableInt(bytes, 1)
           headerLength == rl.position
           totalLength == headerLength + rl.value
           payload == readBytes(bytes, headerLength, rl.value).value
       IN IF Len(bytes) < totalLength THEN DecodeNull
          ELSE IF packetType \notin {CONNACK, SUBACK, PUBLISH, PUBACK, PINGRESP}
          THEN DecodeThrow
          ELSE [kind |-> "packet",
                packet |-> CASE packetType = CONNACK -> decodeConnack(payload)
                             [] packetType = SUBACK -> decodeSuback(payload)
                             [] packetType = PUBLISH -> decodePublish(payload, flags)
                             [] packetType = PUBACK -> decodePuback(payload)
                             [] packetType = PINGRESP -> PingrespPacket,
                bytesConsumed |-> totalLength]

\* encode.ts writePacket: first byte, length of the body, body
writePacket(type, flags, body) ==
  writeBytes(writeVariableInt(writeByte(<<>>, type * 16 + (flags % 16)), Len(body)),
             body)
PublishFlags(packet) ==
  (IF packet.dup THEN 8 ELSE 0) + (packet.qos % 4) * 2
    + (IF packet.retain THEN 1 ELSE 0)
\* encode.ts encodePublish: the bytes of a PUBLISH packet
encodePublishBytes(packet) ==
  LET topic == writeString(<<>>, packet.topic)
      id == IF packet.qos > 0 /\ packet.hasId
            THEN writeUint16(topic, packet.messageId) ELSE topic
  IN writePacket(PUBLISH, PublishFlags(packet), writeBytes(id, packet.payload))

\* constants.ts: protocol name "MQTT", protocol level, the CONNECT flag bits
PROTOCOL_NAME == <<77, 81, 84, 84>>
PROTOCOL_VERSION == 4
ConnectFlags == [CLEAN_SESSION |-> 2, WILL_FLAG |-> 4, WILL_RETAIN |-> 32,
                 PASSWORD |-> 64, USERNAME |-> 128]
\* an optional field of a ConnectPacket: undefined, or a value
Absent == [defined |-> FALSE, value |-> <<>>]
Present(v) == [defined |-> TRUE, value |-> v]
NoWill == [defined |-> FALSE, topic |-> <<>>, payload |-> <<>>, qos |-> 0,
           retain |-> FALSE]
NoKeepalive == [defined |-> FALSE, value |-> 0]
NoConnect == [clientId |-> <<>>, clean |-> FALSE, keepalive |-> NoKeepalive,
              will |-> NoWill, username |-> Absent, password |-> Absent]
\* createPacketWriter writeBinary: length, then the bytes
writeBinary(buffer, data) == writeBytes(writeUint16(buffer, Len(data)), data)
\* encode.ts encodeConnect: the flags byte (the bits are disjoint, so | is +)
connectFlags(packet) ==
  (IF packet.clean THEN ConnectFlags.CLEAN_SESSION ELSE 0)
    + (IF packet.will.defined
       THEN ConnectFlags.WILL_FLAG + packet.will.qos * 8
              + (IF packet.will.retain THEN ConnectFlags.WILL_RETAIN ELSE 0)
       ELSE 0)
    + (IF packet.password.defined THEN ConnectFlags.PASSWORD ELSE 0)
    + (IF packet.username.defined THEN ConnectFlags.USERNAME ELSE 0)
\* the payload fields after the client id, in the order of the writes
connectWill(buffer, packet) ==
  IF packet.will.defined
  THEN writeBinary(writeString(buffer, packet.will.topic), packet.will.payload)
  ELSE buffer
connectUsername(buffer, packet) ==
  IF packet.username.defined THEN writeString(buffer, packet.username.value)
  ELSE buffer
connectPasswordAlways(buffer, packet) == writeString(buffer, packet.password.value)
connectPassword(buffer, packet) ==
  IF packet.password.defined THEN writeString(buffer, packet.password.value)
  ELSE buffer
\* encode.ts encodeConnect: the bytes of a CONNECT packet
encodeConnect(packet) ==
  LET header == writeByte(writeString(<<>>, PROTOCOL_NAME), PROTOCOL_VERSION)
      flags == writeByte(header, connectFlags(packet))
      keep == writeUint16(flags, IF packet.keepalive.defined
                                 THEN packet.keepalive.value
                                 ELSE DEFAULT_KEEPALIVE_SECONDS)
      id == writeString(keep, packet.clientId)
      will == connectWill(id, packet)
      user == connectUsername(will, packet)
  IN writePacket(CONNECT, 0, connectPassword(user, packet))

\* decodeAll: decode from offset until the rest is incomplete; a throw of decode
\* propagates and nothing is returned
RECURSIVE decodeAllFrom(_, _, _)
decodeAllFrom(bytes, offset, packets) ==
  LET result == decode(subarray(bytes, offset, Len(bytes)))
      done == [input |-> bytes, packets |-> packets, consumed |-> offset,
               remaining |-> subarray(bytes, offset, Len(bytes)), threw |-> FALSE]
  IN IF offset >= Len(bytes) \/ result.kind = "null" THEN done
     ELSE IF result.kind = "throw"
     THEN [input |-> bytes, packets |-> <<>>, consumed |-> offset,
           remaining |-> <<>>, threw |-> TRUE]
     ELSE decodeAllFrom(bytes, offset + result.bytesConsumed,
                        Append(packets, result.packet))
decodeAllFirst(bytes) ==
  LET result == decode(bytes)
  IN IF result.kind = "packet"
     THEN [input |-> bytes, packets |-> <<result.packet>>,
           consumed |-> result.bytesConsumed,
           remaining |-> subarray(bytes, result.bytesConsumed, Len(bytes)),
           threw |-> FALSE]
     ELSE decodeAllFrom(bytes, 0, <<>>)
decodeAll(bytes) == decodeAllFrom(bytes, 0, <<>>)

\* ------------------------------------------------ connection.ts (1-258)
nextMessageIdOffByOne(lastId) ==
  [lastMessageId |-> (lastId % (MaxMessageId + 1)) + 1,
   result |-> (lastId % (MaxMessageId + 1)) + 1]
nextMessageId(lastId) ==
  [lastMessageId |-> (lastId % MaxMessageId) + 1,
   result |-> (lastId % MaxMessageId) + 1]

\* the connection events that close() emits: it emits none
closeEmits == {}

\* base.ts connection.on("close"): reject and clear both maps, emit 'close'
onConnectionClose(events) ==
  /\ promises' = RejectAll(MarkClosed(promises),
                           MapValues(pending.sub) \cup MapValues(pending.pub),
                           "Connection closed")
  /\ pending' = [sub |-> EmptyMap, pub |-> EmptyMap]
  /\ emittedNow' = events \o <<Event("close", "")>>

sendRawUnguarded(socks, data) ==
  IF ws # 0 THEN <<data>> ELSE <<>>
\* sendRaw: data reaches the transport only if the current socket is OPEN
sendRaw(socks, data) ==
  IF ws # 0 /\ socks[ws] = "OPEN" THEN <<data>> ELSE <<>>

connCloseEmits(socks, events) ==
  /\ sentNow' = IF connected /\ ws # 0
                THEN sendRaw(socks, DisconnectPacket) ELSE <<>>
  /\ sockets' = wsClose(socks, ws)
  /\ connected' = FALSE
  /\ pingInterval' = 0
  /\ activeTimers' = IF pingInterval # 0 THEN activeTimers - 1 ELSE activeTimers
  /\ onConnectionClose(events)
\* close(): the socks argument is the readyState vector at the time of the call
\* events: what the caller has emitted before close() runs
connClose(socks, events) ==
  /\ sentNow' = IF connected /\ ws # 0
                THEN sendRaw(socks, DisconnectPacket) ELSE <<>>
  /\ sockets' = wsClose(socks, ws)
  /\ connected' = FALSE
  /\ pingInterval' = 0
  /\ activeTimers' = IF pingInterval # 0 THEN activeTimers - 1 ELSE activeTimers
  /\ IF "close" \in closeEmits
     THEN onConnectionClose(events)
     ELSE /\ promises' = MarkClosed(promises)
          /\ pending' = pending
          /\ emittedNow' = events

\* the byte-level state of the message listener, and its dispatch queue
WireUnchanged == UNCHANGED <<wire, receiveBuffer, frames, lastDecode>>
QueueUnchanged == UNCHANGED <<queue, dispatched>>

LegacyUnchanged ==
  /\ UNCHANGED <<messageIdCounter, pendingSubscribes, pendingPublishes>>
  /\ WireUnchanged /\ QueueUnchanged

openCall ==
  /\ impl = "createMqtt" /\ inbox = 0
  /\ sockets' = Append(sockets, "CONNECTING")
  /\ ws' = Len(sockets) + 1
  /\ last' = Op("open", NoPacket)
  /\ sentNow' = <<>> /\ emittedNow' = <<>>
  /\ LegacyUnchanged
  /\ UNCHANGED <<impl, keepalive, connected, pingInterval, activeTimers, 
                 lastMessageId, pending, inbox, promises, allocated, priorAllocs>>
\* the transports of one behaviour are bounded
open == Len(sockets) < MaxSockets /\ openCall

ws_openConnects(s) ==
  /\ impl = "createMqtt" /\ inbox = 0
  /\ sockets[s] = "CONNECTING"
  /\ sockets' = [sockets EXCEPT ![s] = "OPEN"]
  /\ sentNow' = sendRaw(sockets', ConnectPacket)
  /\ last' = Op("ws_open", NoPacket)
  /\ emittedNow' = <<>>
  /\ connected' = TRUE
  /\ LegacyUnchanged
  /\ UNCHANGED <<impl, keepalive, ws, pingInterval, activeTimers,
                 lastMessageId, pending, inbox, promises, allocated, priorAllocs>>
ws_open(s) ==
  /\ impl = "createMqtt" /\ inbox = 0
  /\ sockets[s] = "CONNECTING"
  /\ sockets' = [sockets EXCEPT ![s] = "OPEN"]
  /\ sentNow' = sendRaw(sockets', ConnectPacket)
  /\ last' = Op("ws_open", NoPacket)
  /\ emittedNow' = <<>>
  /\ LegacyUnchanged
  /\ UNCHANGED <<impl, keepalive, ws, connected, pingInterval, activeTimers, 
                 lastMessageId, pending, inbox, promises, allocated, priorAllocs>>

\* a transport message that decodes to at least one packet
ws_message(s) ==
  /\ impl = "createMqtt" /\ inbox = 0
  /\ sockets[s] = "OPEN"
  /\ inbox' = 1
  /\ last' = Op("ws_message", NoPacket)
  /\ sentNow' = <<>> /\ emittedNow' = <<>>
  /\ LegacyUnchanged
  /\ UNCHANGED <<impl, keepalive, sockets, ws, connected, pingInterval, activeTimers,
                 lastMessageId, pending, promises, allocated, priorAllocs>>

onSubackIgnoreFailure(p) ==
  /\ IF p.messageId \in DOMAIN pending.sub
     THEN /\ pending' = [pending EXCEPT !.sub = MapDelete(@, p.messageId)]
          /\ promises' = resolve(promises, pending.sub[p.messageId], p.granted)
     ELSE UNCHANGED <<pending, promises>>
  /\ sentNow' = <<>> /\ emittedNow' = <<>>
  /\ UNCHANGED <<sockets, connected, pingInterval, activeTimers>>
onSubackOldest(p) ==
  /\ IF pending.sub # EmptyMap
     THEN LET k == CHOOSE x \in DOMAIN pending.sub :
                     \A y \in DOMAIN pending.sub : pending.sub[x] <= pending.sub[y]
          IN /\ pending' = [pending EXCEPT !.sub = MapDelete(@, k)]
             /\ promises' = resolve(promises, pending.sub[k], p.granted)
     ELSE UNCHANGED <<pending, promises>>
  /\ sentNow' = <<>> /\ emittedNow' = <<>>
  /\ UNCHANGED <<sockets, connected, pingInterval, activeTimers>>
\* base.ts connection.on("packet"): SUBACK
onSuback(p) ==
  /\ IF p.messageId \in DOMAIN pending.sub
     THEN /\ pending' = [pending EXCEPT !.sub = MapDelete(@, p.messageId)]
          /\ promises' = IF \E k \in DOMAIN p.granted : p.granted[k] = SubackFailure
                         THEN reject(promises, pending.sub[p.messageId], "Subscription failed")
                         ELSE resolve(promises, pending.sub[p.messageId], p.granted)
     ELSE UNCHANGED <<pending, promises>>
  /\ sentNow' = <<>> /\ emittedNow' = <<>>
  /\ UNCHANGED <<sockets, connected, pingInterval, activeTimers>>

onPubackFifo(p) ==
  /\ IF pending.pub # EmptyMap
     THEN LET k == CHOOSE x \in DOMAIN pending.pub :
                     \A y \in DOMAIN pending.pub : pending.pub[x] <= pending.pub[y]
          IN /\ pending' = [pending EXCEPT !.pub = MapDelete(@, k)]
             /\ promises' = resolve(promises, pending.pub[k], <<>>)
     ELSE UNCHANGED <<pending, promises>>
  /\ sentNow' = <<>> /\ emittedNow' = <<>>
  /\ UNCHANGED <<sockets, connected, pingInterval, activeTimers>>
\* base.ts connection.on("packet"): PUBACK
onPuback(p) ==
  /\ IF p.messageId \in DOMAIN pending.pub
     THEN /\ pending' = [pending EXCEPT !.pub = MapDelete(@, p.messageId)]
          /\ promises' = resolve(promises, pending.pub[p.messageId], <<>>)
     ELSE UNCHANGED <<pending, promises>>
  /\ sentNow' = <<>> /\ emittedNow' = <<>>
  /\ UNCHANGED <<sockets, connected, pingInterval, activeTimers>>

\* more: whether the message holds further packets after p
handlePacket2(p, more) ==
  /\ impl = "createMqtt" /\ inbox > 0
  /\ inbox' = IF more THEN 1 ELSE 0
  /\ last' = Op("handlePacket2", p)
  /\ CASE p.type = CONNACK /\ p.returnCode = 0 ->
            /\ keepalive > 0 => activeTimers < MaxTimers
            /\ connected' = TRUE
            /\ pingInterval' = IF keepalive > 0 THEN 1 ELSE pingInterval
            /\ activeTimers' = IF keepalive > 0 THEN activeTimers + 1 ELSE activeTimers
            /\ emittedNow' = <<Event("connect", "")>>
            /\ sentNow' = <<>>
            /\ UNCHANGED <<sockets, pending, promises>>
       [] p.type = CONNACK /\ p.returnCode # 0 ->
            /\ connClose(sockets, <<Event("error", getConnackErrorMessage(p.returnCode))>>)
       [] p.type = PUBLISH ->
            /\ sentNow' = IF p.qos = 1 /\ p.hasId
                          THEN sendRaw(sockets, PubackPacket(p.messageId)) ELSE <<>>
            /\ emittedNow' = <<Event("message", "")>>
            /\ UNCHANGED <<sockets, connected, pingInterval, activeTimers, pending,
                           promises>>
       [] p.type = PINGRESP ->
            /\ sentNow' = <<>> /\ emittedNow' = <<>>
            /\ UNCHANGED <<sockets, connected, pingInterval, activeTimers, pending,
                           promises>>
       [] p.type = SUBACK -> onSuback(p)
       [] p.type = PUBACK -> onPuback(p)
  /\ UNCHANGED <<messageIdCounter, pendingSubscribes, pendingPublishes>>
  /\ WireUnchanged
  /\ UNCHANGED <<impl, keepalive, ws, lastMessageId, allocated, priorAllocs>>

ws_errorCloses(s) ==
  /\ impl = "createMqtt" /\ inbox = 0
  /\ sockets[s] \in {"CONNECTING", "OPEN", "CLOSING"}
  /\ connClose(sockets, <<Event("error", "transport")>>)
  /\ last' = Op("ws_error", NoPacket)
  /\ LegacyUnchanged
  /\ UNCHANGED <<impl, keepalive, ws, lastMessageId, inbox,
                 allocated, priorAllocs>>
ws_error(s) ==
  /\ impl = "createMqtt" /\ inbox = 0
  /\ sockets[s] \in {"CONNECTING", "OPEN", "CLOSING"}
  /\ emittedNow' = <<Event("error", "transport")>>
  /\ last' = Op("ws_error", NoPacket)
  /\ sentNow' = <<>>
  /\ LegacyUnchanged
  /\ UNCHANGED <<impl, keepalive, sockets, ws, connected, pingInterval, activeTimers,
                 lastMessageId, pending, inbox, promises, allocated,
                 priorAllocs>>

\* the transport's close event: the socket is CLOSED when the listener runs
ws_close(s) ==
  /\ impl = "createMqtt" /\ inbox = 0
  /\ sockets[s] \in {"CONNECTING", "OPEN", "CLOSING"}
  /\ connClose([sockets EXCEPT ![s] = "CLOSED"], <<>>)
  /\ last' = SocketOp("ws_close", sockets[s])
  /\ LegacyUnchanged
  /\ UNCHANGED <<impl, keepalive, ws, lastMessageId, inbox,
                 allocated, priorAllocs>>

\* close(), called by client.close() or by the abort listener of options.signal
close ==
  /\ impl = "createMqtt" /\ inbox = 0
  /\ connClose(sockets, <<>>)
  /\ last' = Op("close", NoPacket)
  /\ LegacyUnchanged
  /\ UNCHANGED <<impl, keepalive, ws, lastMessageId, inbox,
                 allocated, priorAllocs>>

pingTick ==
  /\ impl = "createMqtt" /\ inbox = 0
  /\ activeTimers > 0
  /\ sentNow' = sendRaw(sockets, PingreqPacket)
  /\ last' = Op("pingTick", NoPacket)
  /\ emittedNow' = <<>>
  /\ LegacyUnchanged
  /\ UNCHANGED <<impl, keepalive, sockets, ws, connected, pingInterval, activeTimers,
                 lastMessageId, pending, inbox, promises, allocated,
                 priorAllocs>>

\* ------------------------------------------------------------- base.ts
publishCall(qos) ==
  /\ impl = "createMqtt" /\ inbox = 0
  /\ LET alloc == nextMessageId(lastMessageId)
         messageId == IF qos > 0 THEN alloc.result ELSE 0
     IN /\ lastMessageId' = IF qos > 0 THEN alloc.lastMessageId ELSE lastMessageId
        /\ allocated' = IF qos > 0 THEN Append(allocated, messageId) ELSE allocated
        /\ sentNow' = sendRaw(sockets, encodePublish(qos, qos > 0, messageId))
        /\ last' = Op("publish", encodePublish(qos, qos > 0, messageId))
        /\ IF qos = 0
           THEN /\ promises' = Append(promises, NewPromise("pub", qos, 0, "resolved"))
                /\ pending' = pending
           ELSE /\ promises' = Append(promises, NewPromise("pub", qos, messageId, "pending"))
                /\ pending' = IF messageId # 0
                              THEN [pending EXCEPT !.pub = MapSet(@, messageId, Len(promises) + 1)]
                              ELSE pending
  /\ emittedNow' = <<>>
  /\ LegacyUnchanged
  /\ UNCHANGED <<impl, keepalive, sockets, ws, connected, pingInterval, activeTimers,
                 inbox, priorAllocs>>
\* the calls of one behaviour are bounded
publish(qos) == Len(promises) < MaxOps /\ publishCall(qos)

subscribeCallTwice ==
  /\ impl = "createMqtt" /\ inbox = 0
  /\ LET alloc == nextMessageId(lastMessageId)
         messageId == alloc.result
     IN /\ lastMessageId' = alloc.lastMessageId
        /\ allocated' = Append(allocated, messageId)
        /\ promises' = Append(promises, NewPromise("sub", 0, messageId, "pending"))
        /\ pending' = [pending EXCEPT !.sub = MapSet(@, messageId, Len(promises) + 1)]
        /\ sentNow' = sendRaw(sockets, SubscribePacket(messageId))
                      \o sendRaw(sockets, SubscribePacket(messageId))
        /\ last' = Op("subscribe", SubscribePacket(messageId))
  /\ emittedNow' = <<>>
  /\ LegacyUnchanged
  /\ UNCHANGED <<impl, keepalive, sockets, ws, connected, pingInterval, activeTimers,
                 inbox, priorAllocs>>
subscribeCall ==
  /\ impl = "createMqtt" /\ inbox = 0
  /\ LET alloc == nextMessageId(lastMessageId)
         messageId == alloc.result
     IN /\ lastMessageId' = alloc.lastMessageId
        /\ allocated' = Append(allocated, messageId)
        /\ promises' = Append(promises, NewPromise("sub", 0, messageId, "pending"))
        /\ pending' = [pending EXCEPT !.sub = MapSet(@, messageId, Len(promises) + 1)]
        /\ sentNow' = sendRaw(sockets, SubscribePacket(messageId))
        /\ last' = Op("subscribe", SubscribePacket(messageId))
  /\ emittedNow' = <<>>
  /\ LegacyUnchanged
  /\ UNCHANGED <<impl, keepalive, sockets, ws, connected, pingInterval, activeTimers,
                 inbox, priorAllocs>>
\* the calls of one behaviour are bounded
subscribe == Len(promises) < MaxOps /\ subscribeCall

MqttNext ==
  \/ open /\ Observed
  \/ \E s \in DOMAIN sockets : ws_open(s) /\ Observed
  \/ \E s \in DOMAIN sockets : ws_message(s) /\ Observed
  \/ /\ inbox > 0 /\ queue = <<>>
     /\ \E p \in InboundPackets, more \in BOOLEAN : handlePacket2(p, more)
     /\ QueueUnchanged
     /\ Observed
  \/ \E s \in DOMAIN sockets : ws_error(s) /\ Observed
  \/ \E s \in DOMAIN sockets : ws_close(s) /\ Observed
  \/ close /\ Observed
  \/ pingTick /\ Observed
  \/ \E qos \in PublishQos : publish(qos) /\ Observed
  \/ subscribe /\ Observed


\* ------------------------------------------------------------ client.ts
clientNextMessageId(counter) ==
  [messageIdCounter |-> (counter % MaxMessageId) + 1, result |-> counter]

\* send: data reaches the transport only if the current socket is OPEN
send(socks, data) ==
  IF ws # 0 /\ socks[ws] = "OPEN" THEN <<data>> ELSE <<>>

PendingIdxs == MapValues(pendingSubscribes) \cup MapValues(pendingPublishes)

cleanupNoClear ==
  /\ connected' = FALSE
  /\ pingInterval' = 0
  /\ activeTimers' = IF pingInterval # 0 THEN activeTimers - 1 ELSE activeTimers
  /\ promises' = RejectAll(MarkClosed(promises), PendingIdxs, "Connection closed")
  /\ UNCHANGED <<pendingSubscribes, pendingPublishes>>
\* cleanup(): every pending entry is rejected, both maps are cleared
cleanup ==
  /\ connected' = FALSE
  /\ pingInterval' = 0
  /\ activeTimers' = IF pingInterval # 0 THEN activeTimers - 1 ELSE activeTimers
  /\ promises' = RejectAll(MarkClosed(promises), PendingIdxs, "Connection closed")
  /\ pendingSubscribes' = EmptyMap
  /\ pendingPublishes' = EmptyMap

\* end(): DISCONNECT if connected, close the socket, cleanup
clientEnd ==
  /\ sentNow' = IF connected /\ ws # 0
                THEN send(sockets, DisconnectPacket) ELSE <<>>
  /\ sockets' = wsClose(sockets, ws)
  /\ cleanup

MqttUnchanged ==
  /\ UNCHANGED <<lastMessageId, pending>>
  /\ WireUnchanged /\ QueueUnchanged

connectCall ==
  /\ impl = "createMqttClient" /\ inbox = 0
  /\ sockets' = Append(sockets, "CONNECTING")
  /\ ws' = Len(sockets) + 1
  /\ last' = Op("connect", NoPacket)
  /\ sentNow' = <<>> /\ emittedNow' = <<>>
  /\ MqttUnchanged
  /\ UNCHANGED <<impl, keepalive, connected, pingInterval, activeTimers,
                 messageIdCounter, pendingSubscribes, pendingPublishes, inbox,
                 promises, allocated, priorAllocs>>
\* the transports of one behaviour are bounded
connect == Len(sockets) < MaxSockets /\ connectCall

onopen(s) ==
  /\ impl = "createMqttClient" /\ inbox = 0
  /\ sockets[s] = "CONNECTING"
  /\ sockets' = [sockets EXCEPT ![s] = "OPEN"]
  /\ sentNow' = send(sockets', ConnectPacket)
  /\ last' = Op("onopen", NoPacket)
  /\ emittedNow' = <<>>
  /\ MqttUnchanged
  /\ UNCHANGED <<impl, keepalive, ws, connected, pingInterval, activeTimers,
                 messageIdCounter, pendingSubscribes, pendingPublishes, inbox,
                 promises, allocated, priorAllocs>>

\* a transport message that decodes to at least one packet
onmessage(s) ==
  /\ impl = "createMqttClient" /\ inbox = 0
  /\ sockets[s] = "OPEN"
  /\ inbox' = 1
  /\ last' = Op("onmessage", NoPacket)
  /\ sentNow' = <<>> /\ emittedNow' = <<>>
  /\ MqttUnchanged
  /\ UNCHANGED <<impl, keepalive, sockets, ws, connected, pingInterval, activeTimers,
                 messageIdCounter, pendingSubscribes, pendingPublishes, promises,
                 allocated, priorAllocs>>

handleSuback(p) ==
  /\ IF p.messageId \in DOMAIN pendingSubscribes
     THEN /\ pendingSubscribes' = MapDelete(pendingSubscribes, p.messageId)
          /\ promises' = IF \E k \in DOMAIN p.granted : p.granted[k] = SubackFailure
                         THEN reject(promises, pendingSubscribes[p.messageId], "Subscription failed")
                         ELSE resolve(promises, pendingSubscribes[p.messageId], p.granted)
     ELSE UNCHANGED <<pendingSubscribes, promises>>
  /\ sentNow' = <<>> /\ emittedNow' = <<>>
  /\ UNCHANGED <<sockets, connected, pingInterval, activeTimers, pendingPublishes>>

handlePubackStrict(p) ==
  /\ IF p.messageId \in DOMAIN pendingPublishes
     THEN /\ pendingPublishes' = MapDelete(pendingPublishes, p.messageId)
          /\ promises' = resolve(promises, pendingPublishes[p.messageId], <<>>)
          /\ emittedNow' = <<>>
     ELSE /\ UNCHANGED <<pendingPublishes, promises>>
          /\ emittedNow' = <<Event("error", "Unknown message id")>>
  /\ sentNow' = <<>>
  /\ UNCHANGED <<sockets, connected, pingInterval, activeTimers, pendingSubscribes>>
handlePuback(p) ==
  /\ IF p.messageId \in DOMAIN pendingPublishes
     THEN /\ pendingPublishes' = MapDelete(pendingPublishes, p.messageId)
          /\ promises' = resolve(promises, pendingPublishes[p.messageId], <<>>)
     ELSE UNCHANGED <<pendingPublishes, promises>>
  /\ sentNow' = <<>> /\ emittedNow' = <<>>
  /\ UNCHANGED <<sockets, connected, pingInterval, activeTimers, pendingSubscribes>>

\* more: whether the message holds further packets after p
handlePacket(p, more) ==
  /\ impl = "createMqttClient" /\ inbox > 0
  /\ inbox' = IF more THEN 1 ELSE 0
  /\ last' = Op("handlePacket", p)
  /\ CASE p.type = CONNACK /\ p.returnCode = 0 ->
            /\ keepalive > 0 => activeTimers < MaxTimers
            /\ connected' = TRUE
            /\ pingInterval' = IF keepalive > 0 THEN 1 ELSE pingInterval
            /\ activeTimers' = IF keepalive > 0 THEN activeTimers + 1 ELSE activeTimers
            /\ emittedNow' = <<Event("connect", "")>>
            /\ sentNow' = <<>>
            /\ UNCHANGED <<sockets, pendingSubscribes, pendingPublishes, promises>>
       [] p.type = CONNACK /\ p.returnCode # 0 ->
            /\ emittedNow' = <<Event("error", getConnackErrorMessage(p.returnCode))>>
            /\ clientEnd
       [] p.type = PUBLISH ->
            /\ sentNow' = IF p.qos = 1 /\ p.hasId
                          THEN send(sockets, PubackPacket(p.messageId)) ELSE <<>>
            /\ emittedNow' = <<Event("message", "")>>
            /\ UNCHANGED <<sockets, connected, pingInterval, activeTimers,
                           pendingSubscribes, pendingPublishes, promises>>
       [] p.type = PINGRESP ->
            /\ sentNow' = <<>> /\ emittedNow' = <<>>
            /\ UNCHANGED <<sockets, connected, pingInterval, activeTimers,
                           pendingSubscribes, pendingPublishes, promises>>
       [] p.type = SUBACK -> handleSuback(p)
       [] p.type = PUBACK -> handlePuback(p)
  /\ UNCHANGED <<lastMessageId, pending>>
  /\ WireUnchanged
  /\ UNCHANGED <<impl, keepalive, ws, messageIdCounter, allocated, priorAllocs>>

onerror(s) ==
  /\ impl = "createMqttClient" /\ inbox = 0
  /\ sockets[s] \in {"CONNECTING", "OPEN", "CLOSING"}
  /\ emittedNow' = <<Event("error", "transport")>>
  /\ last' = Op("onerror", NoPacket)
  /\ sentNow' = <<>>
  /\ MqttUnchanged
  /\ UNCHANGED <<impl, keepalive, sockets, ws, connected, pingInterval, activeTimers,
                 messageIdCounter, pendingSubscribes, pendingPublishes, inbox,
                 promises, allocated, priorAllocs>>

\* ws.onclose: cleanup(); emit('close')
oncloseNoEmit(s) ==
  /\ impl = "createMqttClient" /\ inbox = 0
  /\ sockets[s] \in {"CONNECTING", "OPEN", "CLOSING"}
  /\ sockets' = [sockets EXCEPT ![s] = "CLOSED"]
  /\ cleanup
  /\ emittedNow' = <<>>
  /\ last' = SocketOp("onclose", sockets[s])
  /\ sentNow' = <<>>
  /\ MqttUnchanged
  /\ UNCHANGED <<impl, keepalive, ws, messageIdCounter, inbox, allocated, priorAllocs>>
onclose(s) ==
  /\ impl = "createMqttClient" /\ inbox = 0
  /\ sockets[s] \in {"CONNECTING", "OPEN", "CLOSING"}
  /\ sockets' = [sockets EXCEPT ![s] = "CLOSED"]
  /\ cleanup
  /\ emittedNow' = <<Event("close", "")>>
  /\ last' = SocketOp("onclose", sockets[s])
  /\ sentNow' = <<>>
  /\ MqttUnchanged
  /\ UNCHANGED <<impl, keepalive, ws, messageIdCounter, inbox, allocated, priorAllocs>>

end ==
  /\ impl = "createMqttClient" /\ inbox = 0
  /\ clientEnd
  /\ last' = Op("end", NoPacket)
  /\ emittedNow' = <<>>
  /\ MqttUnchanged
  /\ UNCHANGED <<impl, keepalive, ws, messageIdCounter, inbox, allocated, priorAllocs>>

\* endAsync(): registers its 'close' listener, calls end(), and resolves at
\* once when there is no transport or it is already CLOSED (see returned)
endAsync ==
  /\ impl = "createMqttClient" /\ inbox = 0
  /\ Len(observer.api) < MaxOps
  /\ clientEnd
  /\ last' = Op("endAsync", NoPacket)
  /\ emittedNow' = <<>>
  /\ MqttUnchanged
  /\ UNCHANGED <<impl, keepalive, ws, messageIdCounter, inbox, allocated, priorAllocs>>

\* the interval callback sends PINGREQ only while connected
clientPingTick ==
  /\ impl = "createMqttClient" /\ inbox = 0
  /\ activeTimers > 0
  /\ sentNow' = IF connected THEN send(sockets, PingreqPacket) ELSE <<>>
  /\ last' = Op("clientPingTick", NoPacket)
  /\ emittedNow' = <<>>
  /\ MqttUnchanged
  /\ UNCHANGED <<impl, keepalive, sockets, ws, connected, pingInterval, activeTimers,
                 messageIdCounter, pendingSubscribes, pendingPublishes, inbox,
                 promises, allocated, priorAllocs>>

subscribeAsyncCall ==
  /\ impl = "createMqttClient" /\ inbox = 0
  /\ LET alloc == clientNextMessageId(messageIdCounter)
         messageId == alloc.result
     IN /\ messageIdCounter' = alloc.messageIdCounter
        /\ allocated' = Append(allocated, messageId)
        /\ promises' = Append(promises, NewPromise("sub", 0, messageId, "pending"))
        /\ pendingSubscribes' = MapSet(pendingSubscribes, messageId, Len(promises) + 1)
        /\ sentNow' = send(sockets, SubscribePacket(messageId))
        /\ last' = Op("subscribeAsync", SubscribePacket(messageId))
  /\ emittedNow' = <<>>
  /\ MqttUnchanged
  /\ UNCHANGED <<impl, keepalive, sockets, ws, connected, pingInterval, activeTimers,
                 pendingPublishes, inbox, priorAllocs>>
\* the calls of one behaviour are bounded
subscribeAsync == Len(promises) < MaxOps /\ subscribeAsyncCall

publishAsyncCall(qos) ==
  /\ impl = "createMqttClient" /\ inbox = 0
  /\ LET alloc == clientNextMessageId(messageIdCounter)
         messageId == IF qos > 0 THEN alloc.result ELSE 0
     IN /\ messageIdCounter' = IF qos > 0 THEN alloc.messageIdCounter ELSE messageIdCounter
        /\ allocated' = IF qos > 0 THEN Append(allocated, messageId) ELSE allocated
        /\ sentNow' = send(sockets, encodePublish(qos, qos > 0, messageId))
        /\ last' = Op("publishAsync", encodePublish(qos, qos > 0, messageId))
        /\ IF qos = 0
           THEN /\ promises' = Append(promises, NewPromise("pub", qos, 0, "resolved"))
                /\ pendingPublishes' = pendingPublishes
           ELSE /\ promises' = Append(promises, NewPromise("pub", qos, messageId, "pending"))
                /\ pendingPublishes' = MapSet(pendingPublishes, messageId, Len(promises) + 1)
  /\ emittedNow' = <<>>
  /\ MqttUnchanged
  /\ UNCHANGED <<impl, keepalive, sockets, ws, connected, pingInterval, activeTimers,
                 pendingSubscribes, inbox, priorAllocs>>
\* the calls of one behaviour are bounded
publishAsync(qos) == Len(promises) < MaxOps /\ publishAsyncCall(qos)

ClientNext ==
  \/ connect /\ Observed
  \/ \E s \in DOMAIN sockets : onopen(s) /\ Observed
  \/ \E s \in DOMAIN sockets : onmessage(s) /\ Observed
  \/ /\ inbox > 0 /\ queue = <<>>
     /\ \E p \in InboundPackets, more \in BOOLEAN : handlePacket(p, more)
     /\ QueueUnchanged
     /\ Observed
  \/ \E s \in DOMAIN sockets : onerror(s) /\ Observed
  \/ \E s \in DOMAIN sockets : onclose(s) /\ Observed
  \/ end /\ Observed
  \/ clientPingTick /\ Observed
  \/ \E qos \in PublishQos : publishAsync(qos) /\ Observed
  \/ subscribeAsync /\ Observed

\* ------------------------------------------------- the byte-level listener
\* frames a peer can write: the bytes and, for a whole well-formed packet, the
\* packet they encode
Frame(bytes, packet, kind) == [bytes |-> bytes, packet |-> packet, kind |-> kind]
LongPayload == [i \in 1..125 |-> 98]
LongPublish ==
  Frame(<<48, 128, 1, 0, 1, 97>> \o LongPayload,
        [NoPacket EXCEPT !.type = PUBLISH, !.topic = <<97>>, !.payload = LongPayload],
        "packet")
PublishFrame(qos) ==
  Frame(<<48 + 2 * qos, 6, 0, 1, 97, 0, 7, 98>>,
        [NoPacket EXCEPT !.type = PUBLISH, !.topic = <<97>>, !.qos = qos,
                         !.hasId = TRUE, !.messageId = 7, !.payload = <<98>>],
        "packet")
WellFormedFrames ==
  {Frame(<<32, 2, 0, rc>>, ConnackPacket(rc), "packet") : rc \in 0..6}
    \cup {Frame(<<144, 3, 0, 1, 1>>, SubackPacket(1, <<1>>), "packet"),
          Frame(<<64, 2, 0, 42>>, PubackPacket(42), "packet"),
          Frame(<<208, 0>>, PingrespPacket, "packet"),
          Frame(<<48, 4, 0, 1, 97, 98>>,
                [NoPacket EXCEPT !.type = PUBLISH, !.topic = <<97>>,
                                 !.payload = <<98>>], "packet"),
          PublishFrame(1), PublishFrame(2)}
\* the frames that come ahead of the last one of a stream
LeadFrames ==
  {f \in WellFormedFrames :
     \/ f.packet.type = PINGRESP
     \/ f.packet.type = CONNACK /\ f.packet.returnCode \in {0, 5}}
\* the frames that come ahead of a long or malformed last one
TailLeadFrames == {f \in WellFormedFrames : f.packet.type = PUBACK}

PacketTypeNibbles == 0..15
KnownTypes == {CONNACK, PUBLISH, PUBACK, SUBACK, PINGRESP}
\* buffers that stop before the end of the packet they announce
TruncatedFrames ==
  UNION {{Frame(<<16 * t>>, NoPacket, "truncated"),
          Frame(<<16 * t, 128>>, NoPacket, "truncated"),
          Frame(<<16 * t, 128, 128>>, NoPacket, "truncated"),
          Frame(<<16 * t, 2, 0>>, NoPacket, "truncated")} : t \in PacketTypeNibbles}
\* whole packets of a type the client does not receive
UnknownFrames ==
  UNION {{Frame(<<16 * t, 0>>, NoPacket, "unknown"),
          Frame(<<16 * t, 2, 0, 0>>, NoPacket, "unknown")} :
         t \in PacketTypeNibbles \ KnownTypes}
\* whole packets whose body is shorter than the fields their type reads
ShortFrames ==
  {Frame(<<32, 0>>, NoPacket, "short"), Frame(<<32, 1, 0>>, NoPacket, "short"),
   Frame(<<64, 0>>, NoPacket, "short"), Frame(<<64, 1, 0>>, NoPacket, "short"),
   Frame(<<144, 0>>, NoPacket, "short"), Frame(<<144, 1, 0>>, NoPacket, "short"),
   Frame(<<48, 0>>, NoPacket, "short"), Frame(<<48, 1, 0>>, NoPacket, "short"),
   Frame(<<50, 3, 0, 1, 97>>, NoPacket, "short")}
TailFrames == TruncatedFrames \cup UnknownFrames \cup ShortFrames

SeqsUpTo(S, n) == UNION {[1..k -> S] : k \in 0..n}
RECURSIVE Flatten(_)
Flatten(fs) == IF fs = <<>> THEN <<>> ELSE Head(fs).bytes \o Flatten(Tail(fs))
\* a stream of whole packets, or a short one followed by a packet whose length
\* field takes two bytes or by a malformed tail
WireStreams ==
  {<<>>}
    \cup {Append(fs, f) : fs \in SeqsUpTo(LeadFrames, MaxFrames - 1),
                          f \in WellFormedFrames}
    \cup {Append(fs, t) : fs \in SeqsUpTo(TailLeadFrames, MaxFrames - 1),
                          t \in {LongPublish} \cup TailFrames}

\* where in a packet the buffered bytes stop: before it, after its first byte,
\* inside its remaining-length field, or later
CutOf(buffer) ==
  IF buffer = <<>> THEN "none"
  ELSE IF Len(buffer) = 1 THEN "header"
  ELSE IF \A i \in 2..Len(buffer) : buffer[i] >= 128 THEN "length"
  ELSE "body"

ws_message_dataNoBuffer(s, n) ==
  /\ impl = "createMqtt" /\ inbox = 0
  /\ sockets[s] = "OPEN"
  /\ LET combined == SubSeq(wire, 1, n)
         r == decodeAll(combined)
     IN /\ wire' = SubSeq(wire, n + 1, Len(wire))
        /\ lastDecode' = [cut |-> CutOf(receiveBuffer)] @@ r
        /\ receiveBuffer' = IF r.threw THEN combined ELSE r.remaining
        /\ queue' = r.packets
        /\ inbox' = IF r.packets = <<>> THEN 0 ELSE 1
  /\ last' = Op("ws_message", NoPacket)
  /\ sentNow' = <<>> /\ emittedNow' = <<>>
  /\ UNCHANGED <<messageIdCounter, pendingSubscribes, pendingPublishes>>
  /\ UNCHANGED <<impl, keepalive, sockets, ws, connected, pingInterval, activeTimers,
                 lastMessageId, pending, promises, allocated, priorAllocs,
                 dispatched, frames>>
\* connection.ts ws message listener, on the bytes of the message: n bytes of
\* the wire arrive, the buffer is extended, decodeAll runs, the packets wait
\* for handlePacket2
ws_message_data(s, n) ==
  /\ impl = "createMqtt" /\ inbox = 0
  /\ sockets[s] = "OPEN"
  /\ LET combined == receiveBuffer \o SubSeq(wire, 1, n)
         r == decodeAll(combined)
     IN /\ wire' = SubSeq(wire, n + 1, Len(wire))
        /\ lastDecode' = [cut |-> CutOf(receiveBuffer)] @@ r
        /\ receiveBuffer' = IF r.threw THEN combined ELSE r.remaining
        /\ queue' = r.packets
        /\ inbox' = IF r.packets = <<>> THEN 0 ELSE 1
  /\ last' = Op("ws_message", NoPacket)
  /\ sentNow' = <<>> /\ emittedNow' = <<>>
  /\ UNCHANGED <<messageIdCounter, pendingSubscribes, pendingPublishes>>
  /\ UNCHANGED <<impl, keepalive, sockets, ws, connected, pingInterval, activeTimers,
                 lastMessageId, pending, promises, allocated, priorAllocs,
                 dispatched, frames>>

\* the listener's loop: the next decoded packet goes to handlePacket2
dispatchDecoded ==
  /\ queue # <<>>
  /\ handlePacket2(Head(queue), Len(queue) > 1)
  /\ queue' = Tail(queue)
  /\ dispatched' = Append(dispatched, Head(queue))

\* client.ts ws.onmessage -> handleData
handleData(s, n) ==
  /\ impl = "createMqttClient" /\ inbox = 0
  /\ sockets[s] = "OPEN"
  /\ LET combined == receiveBuffer \o SubSeq(wire, 1, n)
         r == decodeAll(combined)
     IN /\ wire' = SubSeq(wire, n + 1, Len(wire))
        /\ lastDecode' = [cut |-> CutOf(receiveBuffer)] @@ r
        /\ receiveBuffer' = IF r.threw THEN combined ELSE r.remaining
        /\ queue' = r.packets
        /\ inbox' = IF r.packets = <<>> THEN 0 ELSE 1
  /\ last' = Op("onmessage", NoPacket)
  /\ sentNow' = <<>> /\ emittedNow' = <<>>
  /\ UNCHANGED <<lastMessageId, pending>>
  /\ UNCHANGED <<impl, keepalive, sockets, ws, connected, pingInterval, activeTimers,
                 messageIdCounter, pendingSubscribes, pendingPublishes, promises,
                 allocated, priorAllocs, dispatched, frames>>

\* handleData's loop: the next decoded packet goes to handlePacket
dispatchData ==
  /\ queue # <<>>
  /\ handlePacket(Head(queue), Len(queue) > 1)
  /\ queue' = Tail(queue)
  /\ dispatched' = Append(dispatched, Head(queue))

\* ------------------------------------------------------------- spec
\* the allocations that precede the one returning 65535: the first id issued by
\* createConnection is 2, by createMqttClient 1
WrapAllocs(i) == IF i = "createMqtt" THEN MaxMessageId - 2 ELSE MaxMessageId - 1

\* wrapped: the client's latest allocation, made before the observed
\* operations, returned 65535
InitWith(wrapped) ==
  /\ impl \in {"createMqtt", "createMqttClient"}
  /\ keepalive = DEFAULT_KEEPALIVE_SECONDS
  /\ sockets = <<>> /\ ws = 0
  /\ connected = FALSE
  /\ pingInterval = 0 /\ activeTimers = 0
  /\ priorAllocs = IF wrapped THEN WrapAllocs(impl) ELSE 0
  /\ allocated = IF wrapped THEN <<MaxMessageId>> ELSE <<>>
  /\ lastMessageId = IF wrapped /\ impl = "createMqtt" THEN MaxMessageId ELSE 1
  /\ messageIdCounter = 1
  /\ pending = [sub |-> EmptyMap, pub |-> EmptyMap]
  /\ pendingSubscribes = EmptyMap /\ pendingPublishes = EmptyMap
  /\ inbox = 0
  /\ promises = <<>>
  /\ last = Op("init", NoPacket)
  /\ sentNow = <<>> /\ emittedNow = <<>>
  /\ wire = <<>> /\ receiveBuffer = <<>>
  /\ queue = <<>> /\ dispatched = <<>>
  /\ frames = <<>> /\ lastDecode = NoDecode

\* nothing has been handed to the packet writer
\* connection.ts, the createConnection that takes a handlePacket callback:
\* lastMessageId starts at 0 and nextMessageId returns the value it had
nextMessageIdVariant(lastId) ==
  [lastMessageId |-> (lastId % MaxMessageId) + 1, result |-> lastId]
NoCodec == [kind |-> "none", stage |-> "input", value |-> 0, packet |-> NoPacket,
            connect |-> NoConnect, ids |-> <<>>,
            bytes |-> <<>>, read |-> [value |-> 0, position |-> 0],
            decoded |-> DecodeNull]
Idle == observer = NotObserving /\ codec = NoCodec
\* a freshly constructed client
Init == InitWith(FALSE) /\ Idle
\* a fresh client, or one whose latest allocation returned 65535
InitWrap == (\E wrapped \in BOOLEAN : InitWith(wrapped)) /\ Idle

Next == MqttNext \/ ClientNext

\* a client whose transport has just signalled ready, and the bytes its peer
\* is about to send
InitWire ==
  /\ impl \in {"createMqtt", "createMqttClient"}
  /\ keepalive = DEFAULT_KEEPALIVE_SECONDS
  /\ sockets = <<"OPEN">> /\ ws = 1
  /\ connected = FALSE
  /\ pingInterval = 0 /\ activeTimers = 0
  /\ priorAllocs = 0 /\ allocated = <<>>
  /\ lastMessageId = 1 /\ messageIdCounter = 1
  /\ pending = [sub |-> EmptyMap, pub |-> EmptyMap]
  /\ pendingSubscribes = EmptyMap /\ pendingPublishes = EmptyMap
  /\ inbox = 0
  /\ promises = <<>>
  /\ last = Op(IF impl = "createMqtt" THEN "ws_open" ELSE "onopen", NoPacket)
  /\ sentNow = <<ConnectPacket>> /\ emittedNow = <<>>
  /\ frames \in WireStreams
  /\ wire = Flatten(frames)
  /\ receiveBuffer = <<>> /\ queue = <<>> /\ dispatched = <<>>
  /\ lastDecode = NoDecode
  /\ Idle

NextWire ==
  \/ \E s \in DOMAIN sockets, n \in 0..Len(wire) : ws_message_data(s, n) /\ Observed
  \/ dispatchDecoded /\ Observed
  \/ \E s \in DOMAIN sockets, n \in 0..Len(wire) : handleData(s, n) /\ Observed
  \/ dispatchData /\ Observed

\* the listener's loop when a listener the application registered with
\* client.on throws: utils/events.ts emit calls the listeners without a catch,
\* so the exception leaves handlePacket2 at the emit and the for loop of the
\* message listener with it; the packets still to be dispatched are dropped.
\* (emit of client.ts catches: a throwing listener changes nothing there.)
dispatchThrown ==
  /\ impl = "createMqtt" /\ inbox > 0
  /\ queue # <<>>
  /\ Head(queue).type \in {CONNACK, PUBLISH}
  /\ LET p == Head(queue)
         accepted == p.type = CONNACK /\ p.returnCode = 0
         timer == accepted /\ keepalive > 0
     IN /\ timer => activeTimers < MaxTimers
        /\ connected' = IF accepted THEN TRUE ELSE connected
        /\ pingInterval' = IF timer THEN 1 ELSE pingInterval
        /\ activeTimers' = IF timer THEN activeTimers + 1 ELSE activeTimers
        /\ sentNow' = IF p.type = PUBLISH /\ p.qos = 1 /\ p.hasId
                      THEN sendRaw(sockets, PubackPacket(p.messageId)) ELSE <<>>
        /\ emittedNow' =
             <<IF p.type = PUBLISH THEN Event("message", "")
               ELSE IF accepted THEN Event("connect", "")
               ELSE Event("error", getConnackErrorMessage(p.returnCode))>>
        /\ last' = Op("listenerThrows", p)
        /\ dispatched' = Append(dispatched, p)
  /\ queue' = <<>> /\ inbox' = 0
  /\ UNCHANGED <<messageIdCounter, pendingSubscribes, pendingPublishes>>
  /\ WireUnchanged
  /\ UNCHANGED <<impl, keepalive, sockets, ws, lastMessageId, pending, promises,
                 allocated, priorAllocs>>
NextListen ==
  \/ NextWire
  \/ dispatchThrown /\ Observed
SpecListen == InitWire /\ [][NextListen]_vars

\* the k-th message id a fresh client issues
RECURSIVE IssuedId(_, _)
IssuedId(i, k) ==
  IF i = "createMqtt"
  THEN nextMessageId(IF k = 1 THEN 1 ELSE IssuedId(i, k - 1)).result
  ELSE clientNextMessageId(k).result
\* the request packet of the k-th outstanding request
RequestPacket(i, kind, k) ==
  IF kind = "sub" THEN SubscribePacket(IssuedId(i, k))
  ELSE encodePublish(1, TRUE, IssuedId(i, k))
\* a connected client that has issued subscribe and qos 1 publish requests,
\* none of them acknowledged yet
Outstanding ==
  /\ impl \in {"createMqtt", "createMqttClient"}
  /\ keepalive = DEFAULT_KEEPALIVE_SECONDS
  /\ sockets = <<"OPEN">> /\ ws = 1
  /\ connected = TRUE
  /\ pingInterval = 1 /\ activeTimers = 1
  /\ priorAllocs = 0
  /\ inbox = 0
  /\ \E n \in 1..MaxOutstanding : \E kinds \in [1..n -> {"sub", "pub"}] :
       LET ids == [k \in 1..n |-> IssuedId(impl, k)]
           subs == {k \in 1..n : kinds[k] = "sub"}
           pubs == {k \in 1..n : kinds[k] = "pub"}
           subMap == [id \in {ids[k] : k \in subs} |->
                        CHOOSE k \in subs : ids[k] = id]
           pubMap == [id \in {ids[k] : k \in pubs} |->
                        CHOOSE k \in pubs : ids[k] = id]
       IN /\ allocated = ids
          /\ promises = [k \in 1..n |->
                           NewPromise(kinds[k], IF kinds[k] = "pub" THEN 1 ELSE 0,
                                      ids[k], "pending")]
          /\ lastMessageId = IF impl = "createMqtt" THEN ids[n] ELSE 1
          /\ messageIdCounter = IF impl = "createMqtt" THEN 1
                                ELSE clientNextMessageId(ids[n]).messageIdCounter
          /\ pending = IF impl = "createMqtt"
                       THEN [sub |-> subMap, pub |-> pubMap]
                       ELSE [sub |-> EmptyMap, pub |-> EmptyMap]
          /\ pendingSubscribes = IF impl = "createMqtt" THEN EmptyMap ELSE subMap
          /\ pendingPublishes = IF impl = "createMqtt" THEN EmptyMap ELSE pubMap
          /\ last = Op(IF impl = "createMqtt"
                       THEN (IF kinds[n] = "sub" THEN "subscribe" ELSE "publish")
                       ELSE (IF kinds[n] = "sub" THEN "subscribeAsync"
                             ELSE "publishAsync"),
                       RequestPacket(impl, kinds[n], n))
          /\ sentNow = <<RequestPacket(impl, kinds[n], n)>>
  /\ emittedNow = <<>>
  /\ wire = <<>> /\ receiveBuffer = <<>>
  /\ queue = <<>> /\ dispatched = <<>>
  /\ frames = <<>> /\ lastDecode = NoDecode
InitPair == Outstanding /\ Idle

\* the peer answers: messages arrive and their packets are dispatched
NextPair ==
  \/ \E s \in DOMAIN sockets : ws_message(s) /\ Observed
  \/ /\ inbox > 0 /\ queue = <<>>
     /\ \E p \in InboundPackets, more \in BOOLEAN : handlePacket2(p, more)
     /\ QueueUnchanged
     /\ Observed
  \/ \E s \in DOMAIN sockets : onmessage(s) /\ Observed
  \/ /\ inbox > 0 /\ queue = <<>>
     /\ \E p \in InboundPackets, more \in BOOLEAN : handlePacket(p, more)
     /\ QueueUnchanged
     /\ Observed

Spec == Init /\ [][Next]_vars
SpecPair == InitPair /\ [][NextPair]_vars
SpecWire == InitWire /\ [][NextWire]_vars
SpecWrap == InitWrap /\ [][Next]_vars

\* a connected client with requests outstanding goes on calling publish and
\* subscribe while it is watched; the transport may be closed under it
InitOrder == Outstanding /\ observer = Observing({"wire"}) /\ codec = NoCodec
MoreCalls == Len(promises) < MaxOutstanding + MaxOps
NextOrder ==
  \/ \E qos \in PublishQos : MoreCalls /\ publishCall(qos) /\ Observed
  \/ MoreCalls /\ subscribeCall /\ Observed
  \/ \E qos \in PublishQos : MoreCalls /\ publishAsyncCall(qos) /\ Observed
  \/ MoreCalls /\ subscribeAsyncCall /\ Observed
  \/ close /\ Observed
  \/ end /\ Observed
  \/ \E s \in DOMAIN sockets : ws_close(s) /\ Observed
  \/ \E s \in DOMAIN sockets : onclose(s) /\ Observed
SpecOrder == InitOrder /\ [][NextOrder]_vars

\* a connected client whose first request is still unacknowledged. Every
\* request issued after it has been acknowledged, and the latest allocation
\* returned `latest`: the first id itself (nothing else was issued), 65535, or
\* the id before the first one (the counter has gone round once)
LatestIds(first) ==
  {first, MaxMessageId} \cup (IF first > 1 THEN {first - 1} ELSE {})
InitLap ==
  /\ impl \in {"createMqtt", "createMqttClient"}
  /\ keepalive = DEFAULT_KEEPALIVE_SECONDS
  /\ sockets = <<"OPEN">> /\ ws = 1
  /\ connected = TRUE
  /\ pingInterval = 1 /\ activeTimers = 1
  /\ inbox = 0
  /\ \E kind \in {"sub", "pub"} : \E latest \in LatestIds(IssuedId(impl, 1)) :
       LET first == IssuedId(impl, 1)
           map == MapSet(EmptyMap, first, 1)
           held == [sub |-> IF kind = "sub" THEN map ELSE EmptyMap,
                    pub |-> IF kind = "pub" THEN map ELSE EmptyMap]
       IN /\ allocated = IF latest = first THEN <<first>> ELSE <<first, latest>>
          /\ priorAllocs = IF latest = first THEN 0
                           ELSE ((latest + MaxMessageId - first) % MaxMessageId) - 1
          /\ promises = <<NewPromise(kind, IF kind = "pub" THEN 1 ELSE 0, first,
                                     "pending")>>
          /\ lastMessageId = IF impl = "createMqtt" THEN latest ELSE 1
          /\ messageIdCounter = IF impl = "createMqtt" THEN 1
                                ELSE clientNextMessageId(latest).messageIdCounter
          /\ pending = IF impl = "createMqtt" THEN held
                       ELSE [sub |-> EmptyMap, pub |-> EmptyMap]
          /\ pendingSubscribes = IF impl = "createMqtt" THEN EmptyMap ELSE held.sub
          /\ pendingPublishes = IF impl = "createMqtt" THEN EmptyMap ELSE held.pub
  /\ last = Op("init", NoPacket)
  /\ sentNow = <<>> /\ emittedNow = <<>>
  /\ wire = <<>> /\ receiveBuffer = <<>>
  /\ queue = <<>> /\ dispatched = <<>>
  /\ frames = <<>> /\ lastDecode = NoDecode
  /\ Idle
LapCalls == Len(promises) <= MaxOps + 1
NextLap ==
  \/ \E qos \in PublishQos : LapCalls /\ publishCall(qos) /\ Observed
  \/ LapCalls /\ subscribeCall /\ Observed
  \/ \E qos \in PublishQos : LapCalls /\ publishAsyncCall(qos) /\ Observed
  \/ LapCalls /\ subscribeAsyncCall /\ Observed
  \/ NextPair
SpecLap == InitLap /\ [][NextLap]_vars

\* a client that is used again after it was closed: open() (connect() in the
\* legacy client) is called once more on an instance whose transport close()
\* (end()) has closed; the transports that took a DISCONNECT are recorded
InitReopen == InitWith(FALSE) /\ observer = Observing({"disconnect"}) /\ codec = NoCodec
TransportClosed == ws # 0 /\ sockets[ws] \in {"CLOSING", "CLOSED"}
OneMore == TransportClosed /\ Len(sockets) <= MaxSockets
NextReopen ==
  \/ Next
  \/ OneMore /\ openCall /\ Observed
  \/ OneMore /\ connectCall /\ Observed
SpecReopen == InitReopen /\ [][NextReopen]_vars

\* the packet writer and reader on their own: a value is written, the bytes
\* are read back
MaxVariableInt == 268435455
VariableIntEdges == {0, 127, 128, 16383, 16384, 2097151, 2097152, MaxVariableInt}
VariableInts ==
  {v \in UNION {(e - MaxSpread)..(e + MaxSpread) : e \in VariableIntEdges} :
     v >= 0 /\ v <= MaxVariableInt}
\* a, e acute, the euro sign, an emoji, U+FEFF, a surrogate without partner
TopicChars == {97, 233, 8364, 128512, ByteOrderMark, 55296}
Topics == SeqsUpTo(TopicChars, MaxTopicLen)
Payloads == {<<>>, <<98>>, <<0, 255>>, <<239, 187, 191>>}
PublishIds == {1, 255, 256, MaxMessageId}
QosLevels == 0..2
PublishPackets ==
  {[NoPacket EXCEPT !.type = PUBLISH, !.topic = t, !.payload = b, !.qos = q,
                    !.hasId = (q > 0), !.messageId = IF q > 0 THEN id ELSE 0,
                    !.retain = r, !.dup = d] :
     t \in Topics, b \in Payloads, q \in QosLevels, id \in PublishIds,
     r \in BOOLEAN, d \in BOOLEAN}
\* CONNECT packets: empty, one-byte and two-byte strings, every will qos
ConnectStrings == {<<>>, <<117>>, <<233>>}
Optional(S) == {Absent} \cup {Present(v) : v \in S}
Wills ==
  {NoWill} \cup
  {[defined |-> TRUE, topic |-> t, payload |-> b, qos |-> q, retain |-> r] :
     t \in {<<>>, <<119>>}, b \in {<<>>, <<0, 255>>}, q \in QosLevels,
     r \in BOOLEAN}
ConnectPackets ==
  {[clientId |-> id, clean |-> c, keepalive |-> k, will |-> w, username |-> u,
    password |-> pw] :
     id \in {<<>>, <<99, 233>>}, c \in BOOLEAN, k \in {NoKeepalive, Present(0), Present(300)},
     w \in Wills, u \in Optional(ConnectStrings), pw \in Optional(ConnectStrings)}
InitCodec ==
  /\ InitWith(FALSE) /\ impl = "createMqtt"
  /\ observer = NotObserving
  /\ \/ \E v \in VariableInts :
          codec = [NoCodec EXCEPT !.kind = "varint", !.value = v]
     \/ \E p \in PublishPackets :
          codec = [NoCodec EXCEPT !.kind = "publish", !.packet = p]
     \/ \E p \in ConnectPackets :
          codec = [NoCodec EXCEPT !.kind = "connect", !.connect = p]
     \/ codec = [NoCodec EXCEPT !.kind = "ids"]
ClientUnchanged ==
  UNCHANGED <<impl, keepalive, sockets, ws, connected, pingInterval, activeTimers,
              lastMessageId, pending, messageIdCounter, pendingSubscribes,
              pendingPublishes, inbox, promises, allocated, priorAllocs,
              last, sentNow, emittedNow,
              wire, receiveBuffer, queue, dispatched, frames, lastDecode, observer>>
writeVariableIntStep ==
  /\ codec.kind = "varint" /\ codec.stage = "input"
  /\ codec' = [codec EXCEPT !.stage = "written",
                            !.bytes = writeVariableInt(<<>>, codec.value)]
  /\ ClientUnchanged
readVariableIntStep ==
  /\ codec.kind = "varint" /\ codec.stage = "written"
  /\ codec' = [codec EXCEPT !.stage = "read",
                            !.read = readVariableInt(codec.bytes, 0)]
  /\ ClientUnchanged
encodePublishStep ==
  /\ codec.kind = "publish" /\ codec.stage = "input"
  /\ codec' = [codec EXCEPT !.stage = "written",
                            !.bytes = encodePublishBytes(codec.packet)]
  /\ ClientUnchanged
decodeStep ==
  /\ codec.kind = "publish" /\ codec.stage = "written"
  /\ codec' = [codec EXCEPT !.stage = "read", !.decoded = decode(codec.bytes)]
  /\ ClientUnchanged
encodeConnectStep ==
  /\ codec.kind = "connect" /\ codec.stage = "input"
  /\ codec' = [codec EXCEPT !.stage = "written",
                            !.bytes = encodeConnect(codec.connect)]
  /\ ClientUnchanged
\* value: lastMessageId of a fresh instance of that variant; ids: the values
\* its nextMessageId has returned
nextMessageIdStep ==
  /\ codec.kind = "ids" /\ Len(codec.ids) <= MaxSpread
  /\ LET alloc == nextMessageIdVariant(codec.value)
     IN codec' = [codec EXCEPT !.value = alloc.lastMessageId,
                               !.ids = Append(@, alloc.result)]
  /\ ClientUnchanged
NextCodec ==
  \/ nextMessageIdStep
  \/ writeVariableIntStep
  \/ readVariableIntStep
  \/ encodePublishStep
  \/ decodeStep
  \/ encodeConnectStep
SpecCodec == InitCodec /\ [][NextCodec]_vars

\* createMqtt with the promise of connect() watched. A message holds finitely
\* many packets, so the running message handler reaches the last one, and a
\* transport that is closing reports its close event.
InitConnect ==
  /\ InitWith(FALSE) /\ impl = "createMqtt"
  /\ observer = Observing({"api"}) /\ codec = NoCodec
NextHandler ==
  /\ inbox > 0 /\ queue = <<>>
  /\ \E p \in InboundPackets : handlePacket2(p, FALSE)
  /\ QueueUnchanged
  /\ Observed
Closing ==
  \E s \in DOMAIN sockets : sockets[s] = "CLOSING" /\ ws_close(s) /\ Observed

\* createMqttClient with the promise of endAsync() watched. The event loop runs
\* every queued task: the running message handler goes on to its next packet,
\* and a transport that is closing reports its close event.
InitEnd ==
  /\ InitWith(FALSE) /\ impl = "createMqttClient"
  /\ observer = Observing({"api"}) /\ codec = NoCodec
NextEnd ==
  \/ connect /\ Observed
  \/ \E s \in DOMAIN sockets : onopen(s) /\ Observed
  \/ \E s \in DOMAIN sockets : onmessage(s) /\ Observed
  \/ /\ inbox > 0 /\ queue = <<>>
     /\ \E p \in InboundPackets, more \in BOOLEAN : handlePacket(p, more)
     /\ QueueUnchanged
     /\ Observed
  \/ \E s \in DOMAIN sockets : onerror(s) /\ Observed
  \/ \E s \in DOMAIN sockets : onclose(s) /\ Observed
  \/ end /\ Observed
  \/ endAsync /\ Observed
  \/ clientPingTick /\ Observed
\* a message holds finitely many packets: the handler reaches the last one
ClientHandler ==
  /\ inbox > 0 /\ queue = <<>>
  /\ \E p \in InboundPackets : handlePacket(p, FALSE)
  /\ QueueUnchanged
  /\ Observed
ClientClosing ==
  \E s \in DOMAIN sockets : sockets[s] = "CLOSING" /\ onclose(s) /\ Observed
SpecEnd ==
  InitEnd /\ [][NextEnd]_vars /\ WF_vars(ClientHandler) /\ SF_vars(ClientClosing)

SpecConnect ==
  InitConnect /\ [][MqttNext]_vars /\ WF_vars(NextHandler) /\ WF_vars(Closing)

TypeOK ==
  /\ connected \in BOOLEAN
  /\ inbox \in 0..1
  /\ Len(promises) <= MaxOps
\* ------------------------------------------------------------ properties
IsMqtt == impl = "createMqtt"
PendingSub == IF IsMqtt THEN pending.sub ELSE pendingSubscribes
PendingPub == IF IsMqtt THEN pending.pub ELSE pendingPublishes
IsDispatch(l) == l.op \in {"handlePacket2", "handlePacket"}
IsRefusal(l) == IsDispatch(l) /\ l.packet.type = CONNACK /\ l.packet.returnCode # 0
HasFailure(g) == \E k \in DOMAIN g : g[k] = SubackFailure

IsClose(l) == l.op \in {"close", "ws_close"} \/ IsRefusal(l)
IsCleanup(l) == l.op \in {"end", "onclose"} \/ IsRefusal(l)

\* C1: once the createMqtt connection has been closed (client.close(), the abort
\* signal, the transport's close event or a CONNACK refusal), every request
\* that was outstanding has been rejected with 'Connection closed' and
\* pending.sub and pending.pub are empty.
C1_CloseRejectsAll ==
  [][(IsMqtt /\ IsClose(last')) =>
       /\ pending'.sub = EmptyMap /\ pending'.pub = EmptyMap
       /\ \A i \in DOMAIN promises :
            promises[i].state = "pending" =>
              /\ promises'[i].state = "rejected"
              /\ promises'[i].error = "Connection closed"]_vars

\* C2: in the legacy client, end() and the transport's close event reject every
\* request that is outstanding with 'Connection closed' and leave both maps
\* empty; no request's continuation is invoked a second time when cleanup runs
\* again.
C2_LegacyCleanup ==
  [][(~IsMqtt /\ IsCleanup(last')) =>
       /\ pendingSubscribes' = EmptyMap /\ pendingPublishes' = EmptyMap
       /\ \A i \in DOMAIN promises :
            /\ promises[i].state = "pending" =>
                 /\ promises'[i].state = "rejected"
                 /\ promises'[i].error = "Connection closed"
                 /\ promises'[i].calls = 1
            /\ promises[i].state # "pending" => promises'[i] = promises[i]]_vars
\* the transport reports the close that end() asked for, after end() rejected
C2_Witness ==
  /\ ~IsMqtt /\ last.op = "onclose" /\ last.before = "CLOSING"
  /\ \E i \in DOMAIN promises :
       /\ promises[i].closedOver /\ promises[i].state = "rejected"
       /\ promises[i].error = "Connection closed" /\ promises[i].calls = 1

\* C3: no request is left pending indefinitely.  Finite form: once every
\* transport of the client has reported its close and no message handler is
\* running (the environment owes the client nothing more), no promise returned
\* by subscribe or publish is still pending.
Quiescent ==
  /\ inbox = 0 /\ sockets # <<>>
  /\ \A s \in DOMAIN sockets : sockets[s] = "CLOSED"
C3_SettledOnceClosed ==
  Quiescent => \A i \in DOMAIN promises : promises[i].state # "pending"

\* C4: each PendingRequest is removed exactly once: no continuation is invoked
\* twice (so never both resolved by an ack and rejected by a close), and an
\* acknowledgment that arrives after the close settles nothing that was
\* outstanding at the close.
C4_SettledExactlyOnce ==
  [][\A i \in DOMAIN promises :
       /\ promises'[i].calls <= 1
       /\ (promises[i].closedOver /\ IsDispatch(last')
             /\ last'.packet.type \in {SUBACK, PUBACK}) =>
            promises'[i] = promises[i]]_vars

C6_KthAllocation ==
  IsMqtt =>
    \A i \in DOMAIN allocated :
      allocated[i] = ((priorAllocs + i - 1) % MaxMessageId) + 1

\* C7: publish with qos = 0 leaves the message-id counter and both pending maps
\* unchanged, puts no message id in the PUBLISH packet, and returns a promise
\* that is already resolved.
IsPublish(l) == l.op \in {"publish", "publishAsync"}
C7_Qos0Publish ==
  [][(IsPublish(last') /\ last'.packet.qos = 0) =>
       /\ lastMessageId' = lastMessageId /\ messageIdCounter' = messageIdCounter
       /\ allocated' = allocated
       /\ pending' = pending
       /\ pendingSubscribes' = pendingSubscribes
       /\ pendingPublishes' = pendingPublishes
       /\ \A k \in DOMAIN sentNow' :
            sentNow'[k].type = PUBLISH /\ ~sentNow'[k].hasId
       /\ Len(promises') = Len(promises) + 1
       /\ promises'[Len(promises')].state = "resolved"
       /\ \A i \in DOMAIN promises : promises'[i] = promises[i]]_vars
C7_Witness ==
  /\ IsPublish(last) /\ last.packet.qos = 0
  /\ connected /\ sentNow = <<encodePublish(0, FALSE, 0)>>
  /\ allocated = <<>>
  /\ promises[Len(promises)].state = "resolved"

\* C8: publish with qos = 1 registers exactly one PendingRequest, keyed by the
\* message id it allocated and put in the PUBLISH packet; the promise is
\* resolved when, and only when, a PUBACK carrying that id is dispatched.
C8_Qos1Publish ==
  [][/\ (IsPublish(last') /\ last'.packet.qos = 1) =>
          LET id == last'.packet.messageId
              n == Len(promises')
          IN /\ n = Len(promises) + 1
             /\ last'.packet.hasId
             /\ allocated' = Append(allocated, id)
             /\ \A k \in DOMAIN sentNow' : sentNow'[k] = last'.packet
             /\ promises'[n].state = "pending" /\ promises'[n].id = id
             /\ PendingPub' = MapSet(PendingPub, id, n)
             /\ {k \in DOMAIN PendingPub' : PendingPub'[k] = n} = {id}
             /\ PendingSub' = PendingSub
     /\ \A i \in DOMAIN promises :
          (promises[i].kind = "pub" /\ promises[i].qos = 1
             /\ promises[i].state = "pending") =>
            LET acked == /\ IsDispatch(last')
                         /\ last'.packet.type = PUBACK
                         /\ last'.packet.messageId = promises[i].id
            IN /\ promises'[i].state = "resolved" <=> acked
               /\ acked => promises'[i].calls = 1]_vars
C8_Witness ==
  /\ IsDispatch(last) /\ last.packet.type = PUBACK
  /\ \E i \in DOMAIN promises :
       /\ promises[i].kind = "pub" /\ promises[i].qos = 1
       /\ promises[i].id = last.packet.messageId
       /\ promises[i].state = "resolved" /\ promises[i].calls = 1
  /\ last.packet.messageId \notin DOMAIN PendingPub

\* C9: subscribe always allocates a message id and registers a PendingRequest
\* under it; dispatching the SUBACK with that id removes the entry and resolves
\* the promise with the granted list if no entry is 0x80, and rejects it with
\* 'Subscription failed' if any entry is 0x80.
IsSubscribe(l) == l.op \in {"subscribe", "subscribeAsync"}
C9_Subscribe ==
  [][/\ IsSubscribe(last') =>
          LET id == last'.packet.messageId
              n == Len(promises')
          IN /\ n = Len(promises) + 1
             /\ allocated' = Append(allocated, id)
             /\ promises'[n].state = "pending" /\ promises'[n].id = id
             /\ PendingSub' = MapSet(PendingSub, id, n)
             /\ PendingPub' = PendingPub
     /\ (IsDispatch(last') /\ last'.packet.type = SUBACK
           /\ last'.packet.messageId \in DOMAIN PendingSub) =>
          LET id == last'.packet.messageId
              i == PendingSub[id]
          IN /\ promises[i].state = "pending"
             /\ id \notin DOMAIN PendingSub'
             /\ IF HasFailure(last'.packet.granted)
                THEN /\ promises'[i].state = "rejected"
                     /\ promises'[i].error = "Subscription failed"
                ELSE /\ promises'[i].state = "resolved"
                     /\ promises'[i].granted = last'.packet.granted]_vars
C9_Witness ==
  /\ IsDispatch(last) /\ last.packet.type = SUBACK
  /\ HasFailure(last.packet.granted)
  /\ \E i \in DOMAIN promises :
       /\ promises[i].kind = "sub" /\ promises[i].id = last.packet.messageId
       /\ promises[i].state = "rejected"
       /\ promises[i].error = "Subscription failed"
  /\ last.packet.messageId \notin DOMAIN PendingSub

\* C10: a SUBACK or PUBACK whose message id has no PendingRequest is ignored:
\* no promise is settled, the pending maps, the message-id counter and the
\* connected flag are unchanged, no event is emitted and nothing is sent.
IsUnknownAck(l) ==
  /\ IsDispatch(l)
  /\ \/ l.packet.type = SUBACK /\ l.packet.messageId \notin DOMAIN PendingSub
     \/ l.packet.type = PUBACK /\ l.packet.messageId \notin DOMAIN PendingPub
C10_UnknownAckIgnored ==
  [][IsUnknownAck(last') =>
       /\ promises' = promises
       /\ pending' = pending
       /\ pendingSubscribes' = pendingSubscribes
       /\ pendingPublishes' = pendingPublishes
       /\ lastMessageId' = lastMessageId /\ messageIdCounter' = messageIdCounter
       /\ connected' = connected
       /\ sockets' = sockets
       /\ emittedNow' = <<>> /\ sentNow' = <<>>]_vars
C10_Witness ==
  /\ IsDispatch(last) /\ last.packet.type \in {SUBACK, PUBACK}
  /\ last.packet.messageId = 0
  /\ (PendingSub # EmptyMap \/ PendingPub # EmptyMap)
  /\ \E i \in DOMAIN promises : promises[i].state = "pending"
  /\ connected

\* ---- the byte stream and what the listener has made of it
AllBytes == Flatten(frames)
Delivered == Len(AllBytes) - Len(wire)
WellFormedStream == \A i \in DOMAIN frames : frames[i].kind = "packet"
Expected == [i \in DOMAIN frames |-> frames[i].packet]
EndOfFrame(k) == Len(Flatten(SubSeq(frames, 1, k)))
\* the number of frames that have arrived whole
WholeFrames ==
  CHOOSE k \in 0..Len(frames) :
    /\ EndOfFrame(k) <= Delivered
    /\ \A j \in 0..Len(frames) : EndOfFrame(j) <= Delivered => j <= k
\* the packets handed to the handler so far, and those its loop still holds
Handled == dispatched \o queue

\* C12: whatever the way a stream of well-formed packets is cut into transport
\* messages (inside the fixed header, inside the remaining-length field, inside
\* the body, with empty messages in between), the listener hands the handler
\* exactly the packets whose bytes have arrived whole, each once and in stream
\* order, and keeps exactly the bytes of the packet that is still incomplete.
C12_Reassembly ==
  WellFormedStream =>
    /\ ~lastDecode.threw
    /\ Handled = SubSeq(Expected, 1, WholeFrames)
    /\ receiveBuffer = SubSeq(AllBytes, EndOfFrame(WholeFrames) + 1, Delivered)
C12_Witness ==
  /\ WellFormedStream /\ Len(frames) = 2 /\ frames[2] = LongPublish
  /\ wire = <<>> /\ inbox = 0
  /\ lastDecode.cut = "length"
  /\ dispatched = Expected
  /\ receiveBuffer = <<>>

\* C13: a decodeAll call on n whole packets followed by a proper prefix of the
\* next one returns those n packets in order and that prefix as the remainder;
\* the consumed bytes followed by the remainder are the input, and decode of a
\* non-empty remainder reports an incomplete packet.
C13_DecodeAll ==
  (lastDecode # NoDecode /\ ~lastDecode.threw) =>
    /\ subarray(lastDecode.input, 0, lastDecode.consumed) \o lastDecode.remaining
         = lastDecode.input
    /\ lastDecode.remaining # <<>> => decode(lastDecode.remaining) = DecodeNull
    /\ WellFormedStream =>
         /\ lastDecode.packets
              = SubSeq(Expected, Len(Handled) - Len(lastDecode.packets) + 1,
                       Len(Handled))
         /\ IF Len(Handled) = Len(frames) THEN lastDecode.remaining = <<>>
            ELSE LET next == frames[Len(Handled) + 1].bytes
                 IN /\ Len(lastDecode.remaining) < Len(next)
                    /\ lastDecode.remaining
                         = SubSeq(next, 1, Len(lastDecode.remaining))
C13_Witness ==
  /\ WellFormedStream /\ ~lastDecode.threw
  /\ lastDecode.cut = "none"
  /\ Len(lastDecode.packets) >= 1
  /\ lastDecode.remaining # <<>>
  /\ Len(lastDecode.input) > Len(frames[1].bytes)

\* the last frame of the stream, once every byte of the stream has arrived
LastFrameArrived(kind) ==
  /\ frames # <<>> /\ frames[Len(frames)].kind = kind
  /\ wire = <<>> /\ lastDecode # NoDecode

\* C14: decode answers "incomplete" (null) and does not throw for the empty
\* buffer, a one-byte buffer, a buffer that ends inside the remaining-length
\* field and a buffer shorter than the length it declares, whatever the type
\* nibble of the first byte; the listener then keeps the bytes and waits.
C14_Incomplete ==
  /\ decode(<<>>) = DecodeNull
  /\ \A i \in DOMAIN frames : \A k \in 0..Len(frames[i].bytes) :
       (k < Len(frames[i].bytes) \/ frames[i].kind = "truncated")
         => decode(SubSeq(frames[i].bytes, 1, k)) = DecodeNull
  /\ (LastFrameArrived("truncated") /\ queue = <<>>) =>
       /\ ~lastDecode.threw
       /\ receiveBuffer = frames[Len(frames)].bytes
       /\ dispatched = SubSeq(Expected, 1, Len(frames) - 1)
C14_Witness ==
  /\ LastFrameArrived("truncated") /\ queue = <<>>
  /\ frames[Len(frames)].bytes = <<240, 128, 128>>
  /\ lastDecode.input = <<240, 128, 128>>
  /\ lastDecode.packets = <<>> /\ ~lastDecode.threw

\* C15: a whole packet whose type the client does not receive makes decode
\* throw; the throw leaves decodeAll too, whatever it had decoded before, and
\* no packet is made of those bytes.
C15_UnknownType ==
  /\ \A i \in DOMAIN frames :
       frames[i].kind = "unknown" => decode(frames[i].bytes) = DecodeThrow
  /\ LastFrameArrived("unknown") =>
       /\ lastDecode.threw
       /\ lastDecode.packets = <<>> /\ queue = <<>>
       /\ Len(dispatched) < Len(frames)
       /\ dispatched = SubSeq(Expected, 1, Len(dispatched))
C15_Witness ==
  /\ LastFrameArrived("unknown") /\ Len(frames) = 2
  /\ lastDecode.input = AllBytes
  /\ lastDecode.threw
  /\ dispatched = <<>>

\* C16 (as stated): a whole packet whose body is shorter than the fields its
\* type reads is not decoded into a packet: the read past the body is an error.
C16_ShortBodyRejected ==
  LastFrameArrived("short") =>
    /\ lastDecode.threw
    /\ Len(Handled) < Len(frames)

\* C11: acknowledgments are matched by message id, not by order of issue: the
\* dispatch of a SUBACK (PUBACK) settles the pending subscribe (qos 1 publish)
\* that was issued with the packet's message id, and leaves every other
\* request as it was, in whatever order the acknowledgments arrive.
AckKind(type) == IF type = SUBACK THEN "sub" ELSE "pub"
C11_AckById ==
  [][(IsDispatch(last') /\ last'.packet.type \in {SUBACK, PUBACK}) =>
       \A i \in DOMAIN promises :
         IF /\ promises[i].state = "pending"
            /\ promises[i].id = last'.packet.messageId
            /\ promises[i].kind = AckKind(last'.packet.type)
         THEN promises'[i].state # "pending"
         ELSE promises'[i] = promises[i]]_vars
C11_Witness ==
  /\ IsDispatch(last) /\ last.packet.type \in {SUBACK, PUBACK}
  /\ Len(promises) = 2
  /\ last.packet.messageId = promises[2].id
  /\ promises[2].state = "resolved"
  /\ promises[1].state = "pending"
  /\ promises[1].kind = promises[2].kind

\* C17: the connected flag turns true only in the dispatch of a CONNACK with
\* return code 0, which arrives on a transport that open() created and that
\* signalled ready (whose ready listener hands CONNECT to the current
\* transport); that dispatch sets connected, starts the keepalive timer when
\* keepalive > 0 and emits one 'connect' event.
IsAccept(l) == IsDispatch(l) /\ l.packet.type = CONNACK /\ l.packet.returnCode = 0
C17_Handshake ==
  [][/\ (~connected /\ connected') => IsAccept(last')
     /\ IsAccept(last') =>
          /\ connected'
          /\ emittedNow' = <<Event("connect", "")>>
          /\ sentNow' = <<>>
          /\ keepalive > 0 =>
               (pingInterval' # 0 /\ activeTimers' = activeTimers + 1)
     /\ IsDispatch(last') =>
          \E s \in DOMAIN sockets : sockets[s] # "CONNECTING"
     /\ (\E s \in DOMAIN sockets : sockets[s] = "CONNECTING" /\ sockets'[s] = "OPEN")
          => /\ last'.op \in {"ws_open", "onopen"}
             /\ sockets'[ws] = "OPEN" => sentNow' = <<ConnectPacket>>
     /\ connected' => ws' # 0]_vars
C17_Witness ==
  /\ IsAccept(last)
  /\ connected
  /\ emittedNow = <<Event("connect", "")>>
  /\ pingInterval # 0 /\ activeTimers = 1
  /\ sockets[ws] = "OPEN"

\* C18: the dispatch of a CONNACK with a nonzero return code emits one 'error'
\* event, whose message is the refusal reason of codes 1-5 and 'Connection
\* refused: <code>' for another code, emits no 'connect', starts no keepalive
\* timer, and then closes: the transport is asked to close and connected is
\* false; the error event comes before anything the close emits.
RefusalReasons ==
  {"Connection refused: unacceptable protocol version",
   "Connection refused: identifier rejected",
   "Connection refused: server unavailable",
   "Connection refused: bad username or password",
   "Connection refused: not authorized"}
C18_Refusal ==
  [][IsRefusal(last') =>
       LET rc == last'.packet.returnCode
       IN /\ emittedNow' # <<>>
          /\ emittedNow'[1].event = "error"
          /\ IF rc \in 1..5
             THEN /\ emittedNow'[1].message \in RefusalReasons
                  /\ \A other \in (1..5) \ {rc} :
                       emittedNow'[1].message # getConnackErrorMessage(other)
             ELSE emittedNow'[1].message =
                    "Connection refused: "
                      \o (IF rc = Undefined THEN "undefined" ELSE ToString(rc))
          /\ \A k \in 2..Len(emittedNow') :
               emittedNow'[k].event \notin {"error", "connect"}
          /\ ~connected'
          /\ pingInterval' = 0 /\ activeTimers' <= activeTimers
          /\ sockets'[ws] \in {"CLOSING", "CLOSED"}]_vars
C18_Witness ==
  /\ IsRefusal(last) /\ last.packet.returnCode = 6
  /\ emittedNow[1] = Event("error", "Connection refused: 6")
  /\ ~connected /\ activeTimers = 0
  /\ sockets[ws] = "CLOSING"
  /\ wire = <<>> /\ Len(dispatched) = 2

\* C19 (as stated): the dispatch of an inbound PUBLISH emits 'message' exactly
\* once whatever the QoS; for QoS 1 with a message id exactly one PUBACK with
\* that id is handed to the transport; for QoS 0 and QoS 2 nothing is sent.
IsInboundPublish(l) == IsDispatch(l) /\ l.packet.type = PUBLISH
C19_PublishAck ==
  [][IsInboundPublish(last') =>
       /\ emittedNow' = <<Event("message", "")>>
       /\ sentNow' = IF last'.packet.qos = 1 /\ last'.packet.hasId
                     THEN <<PubackPacket(last'.packet.messageId)>>
                     ELSE <<>>]_vars

\* C20 (as stated): a PINGREQ is handed to the transport only by a timer that
\* fires while the connection is connected, and no keepalive timer is left
\* running once the connection is not connected.
IsTick(l) == l.op \in {"pingTick", "clientPingTick"}
C20_KeepaliveOnlyConnected ==
  [][/\ (IsTick(last') /\ sentNow' # <<>>) => connected
     /\ ~connected' => activeTimers' = 0]_vars

\* C21 (as stated): close() (end() in the legacy client) called while connected
\* hands DISCONNECT to the transport and asks the transport to close; however
\* the connection is closed, afterwards connected is false and no keepalive
\* timer is running.
IsExplicitClose(l) == l.op \in {"close", "end"}
C21_CloseDisconnects ==
  [][/\ (IsExplicitClose(last') /\ connected /\ ws # 0) =>
          /\ sentNow' = <<DisconnectPacket>>
          /\ sockets'[ws] \in {"CLOSING", "CLOSED"}
     /\ (IsClose(last') \/ IsCleanup(last')) =>
          (~connected' /\ activeTimers' = 0)]_vars

\* C22: close() on a connection that is already closed (called again, or by the
\* listener of the transport's own close event after an explicit close) hands
\* nothing to the transport, emits no event, settles no promise and leaves the
\* connected flag, the timer handle, the receive buffer, the pending maps and
\* the message-id counter as they were.
Closed ==
  /\ ~connected /\ pingInterval = 0
  /\ ws # 0 /\ sockets[ws] \in {"CLOSING", "CLOSED"}
Settlement(ps) ==
  [i \in DOMAIN ps |-> <<ps[i].state, ps[i].error, ps[i].calls>>]
C22_CloseIdempotent ==
  [][(IsMqtt /\ Closed /\ last'.op \in {"close", "ws_close"}) =>
       /\ sentNow' = <<>> /\ emittedNow' = <<>>
       /\ Settlement(promises') = Settlement(promises)
       /\ connected' = connected
       /\ pingInterval' = pingInterval /\ activeTimers' = activeTimers
       /\ receiveBuffer' = receiveBuffer
       /\ pending' = pending
       /\ lastMessageId' = lastMessageId
       /\ last'.op = "close" => sockets' = sockets]_vars
C22_Witness ==
  /\ IsMqtt /\ last.op = "ws_close" /\ last.before = "CLOSING"
  /\ Closed /\ sockets[ws] = "CLOSED"
  /\ \E i \in DOMAIN promises : promises[i].state = "pending"
  /\ sentNow = <<>> /\ emittedNow = <<>>

\* C23 (as stated): once the connection is closed, connected does not turn true
\* again and nothing more is handed to a transport, whatever open() calls,
\* inbound packets and timer firings follow.
C23_ClosedTerminal ==
  [][Closed => (~connected' /\ sentNow' = <<>>)]_vars

\* C24: nothing is handed to a transport before it has signalled ready; the
\* step in which the current transport signals ready hands it exactly the
\* CONNECT packet, and CONNECT is handed over in no other step, so CONNECT is
\* the first packet on the transport however publish and subscribe calls
\* interleave with the ready event.
IsReady(l) == l.op \in {"ws_open", "onopen"}
C24_ConnectFirst ==
  [][/\ sentNow' # <<>> =>
          /\ ws # 0
          /\ sockets[ws] = "OPEN" \/ (IsReady(last') /\ sockets'[ws] = "OPEN")
     /\ (IsReady(last') /\ sockets'[ws] = "OPEN") => sentNow' = <<ConnectPacket>>
     /\ (\E k \in DOMAIN sentNow' : sentNow'[k].type = CONNECT) => IsReady(last')
     /\ (ws # 0 /\ sockets[ws] = "CONNECTING" /\ ~IsReady(last')) => sentNow' = <<>>]_vars
C24_Witness ==
  /\ IsReady(last) /\ sentNow = <<ConnectPacket>>
  /\ Len(promises) = 1 /\ promises[1].state = "pending"
  /\ sockets[ws] = "OPEN"

\* C25: a transport error event emits exactly one 'error' event and changes
\* nothing else: connected flag, keepalive timer, receive buffer, message-id
\* counter, pending maps and promises are as before, nothing is sent and the
\* transport is not closed.
IsTransportError(l) == l.op \in {"ws_error", "onerror"}
C25_TransportError ==
  [][IsTransportError(last') =>
       /\ emittedNow' = <<Event("error", "transport")>>
       /\ sentNow' = <<>>
       /\ UNCHANGED <<connected, pingInterval, activeTimers, receiveBuffer,
                      lastMessageId, messageIdCounter, pending, pendingSubscribes,
                      pendingPublishes, promises, sockets, ws>>]_vars
C25_Witness ==
  /\ IsTransportError(last) /\ connected /\ activeTimers = 1
  /\ sockets[ws] = "OPEN"
  /\ \E i \in DOMAIN promises : promises[i].state = "pending"
  /\ emittedNow = <<Event("error", "transport")>>

\* C26: the packets of publish and subscribe calls reach the transport in the
\* order of the calls: the PUBLISH and SUBSCRIBE packets handed to the
\* transport are, in order, exactly the packets of the calls made while the
\* transport was open, one packet per call, each carrying the id of its call.
IsRequestPacket(p) == p.type \in {PUBLISH, SUBSCRIBE}
WasOpen(c) == c.open
RequestLog == SelectSeq(observer.log, IsRequestPacket)
OpenCalls == SelectSeq(observer.calls, WasOpen)
\* the promise returned by the i-th watched call
PromiseOf(i) == promises[Len(promises) - Len(observer.calls) + i]
C26_CallOrder ==
  "wire" \in observer.on =>
    /\ RequestLog = [i \in DOMAIN OpenCalls |-> OpenCalls[i].packet]
    /\ \A i \in DOMAIN observer.calls :
         LET p == observer.calls[i].packet
         IN /\ IsRequestPacket(p)
            /\ (p.type = SUBSCRIBE) = (PromiseOf(i).kind = "sub")
            /\ p.hasId => p.messageId = PromiseOf(i).id
            /\ p.type = PUBLISH => p.qos = PromiseOf(i).qos
C26_Witness ==
  /\ "wire" \in observer.on /\ Len(OpenCalls) >= 2
  /\ OpenCalls[1].packet # OpenCalls[2].packet
  /\ RequestLog = <<OpenCalls[1].packet, OpenCalls[2].packet>>

\* C27 (as stated): the promise returned by connect() is resolved only in the
\* step that dispatches a CONNACK with return code 0, with isConnected() true;
\* it is rejected only by an 'error' event; once settled it does not change;
\* and whenever the transport has delivered a CONNACK or has closed while the
\* promise is pending, the promise is eventually settled.
IsConnectPromise(p) == p.kind = "connect"
ConnectPending ==
  \E i \in DOMAIN observer.api :
    IsConnectPromise(observer.api[i]) /\ observer.api[i].state = "pending"
TransportDone ==
  \/ last.op = "ws_close"
  \/ IsDispatch(last) /\ last.packet.type = CONNACK
C27_ConnectPromise ==
  /\ [][\A i \in DOMAIN observer.api :
          LET p == observer.api[i]
              q == observer.api'[i]
          IN IsConnectPromise(p) =>
               /\ p.state # "pending" => q = p
               /\ (p.state = "pending" /\ q.state = "resolved") =>
                    (IsAccept(last') /\ connected' /\ q.connected)
               /\ (p.state = "pending" /\ q.state = "rejected") =>
                    (\E k \in DOMAIN emittedNow' : emittedNow'[k].event = "error")]_vars
  /\ ((ConnectPending /\ TransportDone) ~> ~ConnectPending)

\* C28: the promise returned by endAsync() is never rejected and is settled
\* once: it is resolved by the call itself exactly when there is no transport
\* or the transport is already CLOSED, otherwise by a 'close' event; when it
\* is resolved isConnected() is false; and a pending one is eventually
\* resolved, the transport's close event being delivered.
IsEndPromise(p) == p.kind = "endAsync"
EndPending ==
  \E i \in DOMAIN observer.api :
    IsEndPromise(observer.api[i]) /\ observer.api[i].state = "pending"
C28_EndAsync ==
  /\ [][\A i \in DOMAIN observer.api' :
          LET q == observer.api'[i]
          IN IsEndPromise(q) =>
               /\ q.state # "rejected"
               /\ q.state = "resolved" => ~q.connected
               /\ IF i \in DOMAIN observer.api
                  THEN LET p == observer.api[i]
                       IN /\ p.state # "pending" => q = p
                          /\ (p.state = "pending" /\ q.state = "resolved") =>
                               /\ emittedNow' = <<Event("close", "")>>
                               /\ ~connected'
                  ELSE /\ last'.op = "endAsync"
                       /\ (q.state = "resolved") = (ws = 0 \/ sockets[ws] = "CLOSED")
                       /\ ~connected']_vars
  /\ (EndPending ~> ~EndPending)
C28_Witness ==
  /\ last.op = "onclose" /\ last.before = "CLOSING"
  /\ \E i \in DOMAIN observer.api :
       /\ IsEndPromise(observer.api[i])
       /\ observer.api[i].state = "resolved" /\ observer.api[i].by = "close"

\* C29: a value from 0 to 268435455 written by writeVariableInt is read back by
\* readVariableInt, which consumes every byte written; the encoding takes 1
\* byte up to 127, 2 up to 16383, 3 up to 2097151 and 4 beyond, and the 0x80
\* bit is set on every byte but the last.
VariableIntLength(v) ==
  IF v <= 127 THEN 1 ELSE IF v <= 16383 THEN 2 ELSE IF v <= 2097151 THEN 3 ELSE 4
C29_VariableInt ==
  codec.kind = "varint" =>
    /\ codec.stage # "input" =>
         /\ Len(codec.bytes) = VariableIntLength(codec.value)
         /\ \A k \in DOMAIN codec.bytes :
              (codec.bytes[k] >= 128) = (k < Len(codec.bytes))
    /\ codec.stage = "read" =>
         /\ codec.read.value = codec.value
         /\ codec.read.position = Len(codec.bytes)
C29_Witness ==
  /\ codec.kind = "varint" /\ codec.stage = "read"
  /\ codec.value = 2097152 /\ Len(codec.bytes) = 4
  /\ codec.read.value = 2097152

\* C30 (as stated): a PUBLISH packet written by encodePublish and read by decode
\* comes back equal, whatever its topic, payload, qos, retain, dup and (for
\* qos > 0) message id, with bytesConsumed the encoded length; the first byte
\* is 0x30 | dup<<3 | qos<<1 | retain; the message id is on the wire and in
\* the decoded packet exactly when qos > 0.
PublishLength(p, withId) ==
  2 + Len(textEncode(p.topic)) + (IF withId THEN 2 ELSE 0) + Len(p.payload)
C30_PublishRoundTrip ==
  codec.kind = "publish" =>
    LET p == codec.packet
        header == 1 + VariableIntLength(PublishLength(p, p.qos > 0))
    IN /\ codec.stage # "input" =>
            /\ codec.bytes[1] = PUBLISH * 16 + PublishFlags(p)
            /\ Len(codec.bytes) = header + PublishLength(p, p.qos > 0)
            /\ p.qos > 0 =>
                 readUint16(codec.bytes, header + 2 + Len(textEncode(p.topic))).value
                   = p.messageId
       /\ codec.stage = "read" =>
            /\ codec.decoded.kind = "packet"
            /\ codec.decoded.packet = p
            /\ codec.decoded.packet.hasId = (p.qos > 0)
            /\ codec.decoded.bytesConsumed = Len(codec.bytes)

\* C31 (as stated): after every run of the transport-message handler the
\* receive buffer is empty or holds bytes that do not yet form a complete
\* packet: decode of the buffer reports an incomplete packet.
IsMessage(l) == l.op \in {"ws_message", "onmessage"}
C31_BufferIncomplete ==
  IsMessage(last) =>
    (receiveBuffer = <<>> \/ decode(receiveBuffer).kind = "null")

\* C32: the bytes of a CONNECT packet, read back field by field, agree with
\* the options for every combination: first byte 0x10, remaining length the
\* rest of the packet, protocol name MQTT and level 4; the will bit is set
\* iff a will is given and the will-qos and will-retain bits are zero without
\* one; the username and password bits are set iff the field is present; the
\* payload is client id, then will topic and will payload iff a will is
\* given, then username iff present, then password iff present, and nothing
\* else.
Bit(flags, mask) == (flags \div mask) % 2 = 1
readBinary(buffer, position) ==
  LET length == readUint16(buffer, position)
  IN readBytes(buffer, length.position, length.value)
ReadOptional(buffer, position, present) ==
  IF present THEN readBinary(buffer, position)
  ELSE [value |-> <<>>, position |-> position]
ConnectFields(bytes) ==
  LET length == readVariableInt(bytes, 1)
      name == readBinary(bytes, length.position)
      level == readByte(bytes, name.position)
      flags == readByte(bytes, level.position)
      keep == readUint16(bytes, flags.position)
      id == readBinary(bytes, keep.position)
      hasWill == Bit(flags.value, 4)
      topic == ReadOptional(bytes, id.position, hasWill)
      payload == ReadOptional(bytes, topic.position, hasWill)
      user == ReadOptional(bytes, payload.position, Bit(flags.value, 128))
      pass == ReadOptional(bytes, user.position, Bit(flags.value, 64))
  IN [first |-> bytes[1], length |-> length.value, body |-> length.position,
      name |-> name.value, level |-> level.value, flags |-> flags.value,
      keepalive |-> keep.value, clientId |-> id.value, willTopic |-> topic.value,
      willPayload |-> payload.value, username |-> user.value,
      password |-> pass.value, end |-> pass.position]
C32_ConnectConsistent ==
  (codec.kind = "connect" /\ codec.stage = "written") =>
    LET p == codec.connect
        f == ConnectFields(codec.bytes)
    IN /\ f.first = 16 /\ f.length = Len(codec.bytes) - f.body
       /\ f.name = <<77, 81, 84, 84>> /\ f.level = 4
       /\ Bit(f.flags, 4) = p.will.defined
       /\ ~p.will.defined => (f.flags \div 8) % 8 = 0
       /\ p.will.defined =>
            /\ (f.flags \div 8) % 4 = p.will.qos
            /\ Bit(f.flags, 32) = p.will.retain
            /\ f.willTopic = textEncode(p.will.topic)
            /\ f.willPayload = p.will.payload
       /\ Bit(f.flags, 128) = p.username.defined
       /\ Bit(f.flags, 64) = p.password.defined
       /\ Bit(f.flags, 2) = p.clean /\ f.flags % 2 = 0
       /\ f.keepalive = (IF p.keepalive.defined THEN p.keepalive.value ELSE 60)
       /\ f.clientId = textEncode(p.clientId)
       /\ p.username.defined => f.username = textEncode(p.username.value)
       /\ p.password.defined => f.password = textEncode(p.password.value)
       /\ f.end = Len(codec.bytes)
C32_Witness ==
  /\ codec.kind = "connect" /\ codec.stage = "written"
  /\ codec.connect.will.defined /\ codec.connect.will.qos = 2
  /\ codec.connect.will.retain
  /\ ~codec.connect.username.defined /\ codec.connect.password.defined
  /\ codec.connect.password.value = <<233>>
  /\ ConnectFields(codec.bytes).flags = 4 + 16 + 32 + 64

\* C33 (as stated): the message id allocated for a new subscribe or qos > 0
\* publish is never the id of a request still outstanding in the same map,
\* also after the counter has wrapped: registering a request overwrites no
\* pending entry, so every pending promise stays reachable from its map.
PendingMap(kind) ==
  IF impl = "createMqtt" THEN pending[kind]
  ELSE IF kind = "sub" THEN pendingSubscribes ELSE pendingPublishes
Registers ==
  /\ Len(promises') = Len(promises) + 1
  /\ promises'[Len(promises')].state = "pending"
Reachable(ps, kind, map) ==
  \A i \in DOMAIN ps :
    (ps[i].kind = kind /\ ps[i].state = "pending") =>
      (ps[i].id \in DOMAIN map /\ map[ps[i].id] = i)
C33_FreshId ==
  [][Registers =>
       LET new == promises'[Len(promises')]
       IN /\ new.id \notin DOMAIN PendingMap(new.kind)
          /\ Reachable(promises', "sub", PendingMap("sub")')
          /\ Reachable(promises', "pub", PendingMap("pub")')]_vars

\* C34 (as stated): at most one keepalive interval timer exists at any time,
\* whatever packets arrive, more than one CONNACK with return code 0
\* included; after close() no interval timer of the connection is active.
C34_OneTimer ==
  [][/\ activeTimers' <= 1
     /\ IsClose(last') => activeTimers' = 0]_vars

\* C35 (as stated): a request is reported as issued only if its packet reached
\* the transport: whenever a call resolves a qos 0 publish promise or
\* registers a pending request, its PUBLISH or SUBSCRIBE packet was handed to
\* the transport by that call, also when the call is made before open(),
\* before the transport is ready or after close.
C35_IssuedMeansSent ==
  [][(IsRequest(last') /\ Len(promises') = Len(promises) + 1
        /\ promises'[Len(promises')].state \in {"resolved", "pending"}) =>
       sentNow' = <<last'.packet>>]_vars

\* C36 (as stated): a decode error does not corrupt reception: once a whole
\* packet of unrecognized type has arrived, every whole packet before it has
\* been handed to the handler exactly once and in order, and the offending
\* bytes are not kept in the receive buffer.
C36_DecodeErrorContained ==
  (LastFrameArrived("unknown") /\ queue = <<>>) =>
    /\ dispatched = SubSeq(Expected, 1, Len(frames) - 1)
    /\ receiveBuffer = <<>>

\* C37 (as stated): an exception thrown by a listener of the application while
\* one packet is dispatched loses no inbound packet: the packet has been
\* handed to the handler and the packets after it in the same message are
\* still to be dispatched, in order.
C37_ListenerThrowKeepsPackets ==
  [][last'.op = "listenerThrows" =>
       /\ dispatched' = Append(dispatched, Head(queue))
       /\ queue' = Tail(queue)]_vars

\* C38 (as stated): a createMqtt client emits 'close' exactly once for each
\* transition of its connection to Closed (client.close(), the abort signal,
\* the transport's close event, a CONNACK refusal), and emits none while the
\* connection stays Closed, as when the transport's own close event follows
\* close().
IsCloseEvent(e) == e.event = "close"
CloseEvents(es) == Len(SelectSeq(es, IsCloseEvent))
C38_CloseOnce ==
  [][IsMqtt =>
       /\ (~Closed /\ Closed') => CloseEvents(emittedNow') = 1
       /\ (Closed /\ Closed') => CloseEvents(emittedNow') = 0]_vars

\* C39 (as stated): a connection instance hands DISCONNECT to a transport at
\* most once, and DISCONNECT is the last packet on its transport: nothing
\* (PINGREQ, PUBACK, PUBLISH, SUBSCRIBE, another DISCONNECT) is handed to a
\* transport that has taken a DISCONNECT, whatever timer fires, message
\* arrives or call is made afterwards.
TookDisconnect(s) == \E i \in DOMAIN observer.log : observer.log[i] = s
C39_DisconnectLast ==
  [][/\ Len(observer.log') <= 1
     /\ sentNow' # <<>> => ~TookDisconnect(ws)]_vars

\* C40 (as stated): the createConnection variant that takes a handlePacket
\* callback never issues message id 0: every value its nextMessageId returns,
\* from the first call on a fresh instance on, lies in [1, 65535].
C40_VariantIdRange ==
  codec.kind = "ids" =>
    \A i \in DOMAIN codec.ids : codec.ids[i] \in 1..MaxMessageId
====
